---- MODULE Spec2Model ----
(***************************************************************************)
(* FootScan: the four scoring models (Poisson, Negative-Binomial, Hawkes,  *)
(* Form/HMM), the mixture-of-experts combiner, the prediction pipeline     *)
(* with its predictions table, and the backtester.                         *)
(*                                                                         *)
(* Numbers.  Python floats are modelled as exact rationals <<n, d>> in     *)
(* lowest terms (d > 0).  The two scipy distributions are evaluated on a   *)
(* decimal grid (see PoissonPmf, NbinomPmf); everything the repository's   *)
(* own code computes from them is exact.                                   *)
(* Strings that the code parses or formats (predicted_score) are sequences *)
(* of one-character strings, so that split / int / f-string are modelled   *)
(* by what they do.                                                        *)
(***************************************************************************)
EXTENDS Integers, Sequences, FiniteSets, TLC

VARIABLES
    inst,     \* the model instance under test (one of the four model classes)
    fresh,    \* a freshly constructed instance given only the latest fit call
    calls,    \* number of fit calls made on inst
    ret,      \* value returned by the latest call (None after fit)
    given,    \* the arguments of the latest predict call
    sim,      \* the goal_counts arrays of the latest Hawkes simulation
    moe,      \* the MixtureOfExpertsModel instance: weights, model_performances
    db,       \* the database: matches, team_stats, predictions (in insertion order)
    pipe,     \* the model instances owned by the PredictionPipeline
    rows      \* the joined rows handed to the backtester's metrics

vars == <<inst, fresh, calls, ret, given, sim, moe, db, pipe, rows>>

None == [kind |-> "None"]

----------------------------------------------------------------------------
(* Exact rational arithmetic *)

Abs(x) == IF x < 0 THEN -x ELSE x

RECURSIVE GCD(_, _)
GCD(a, b) == IF b = 0 THEN a ELSE GCD(b, a % b)

\* n/d in lowest terms with a positive denominator
R(n, d) ==
    LET s == IF d < 0 THEN -1 ELSE 1
        g == GCD(Abs(n), Abs(d))
    IN  IF n = 0 THEN <<0, 1>> ELSE <<(s * n) \div g, (s * d) \div g>>

RInt(n) == <<n, 1>>
Zero == <<0, 1>>
One == <<1, 1>>
Half == <<1, 2>>

RAdd(a, b) ==
    LET g == GCD(a[2], b[2])
    IN  R(a[1] * (b[2] \div g) + b[1] * (a[2] \div g), (a[2] \div g) * b[2])

RNeg(a) == <<-a[1], a[2]>>
RSub(a, b) == RAdd(a, RNeg(b))

RMul(a, b) ==
    LET g1 == GCD(Abs(a[1]), b[2])
        g2 == GCD(Abs(b[1]), a[2])
        h1 == IF g1 = 0 THEN 1 ELSE g1
        h2 == IF g2 = 0 THEN 1 ELSE g2
    IN  R((a[1] \div h1) * (b[1] \div h2), (a[2] \div h2) * (b[2] \div h1))

\* a / b for b # 0
RDiv(a, b) == RMul(a, R(b[2], b[1]))

RLt(a, b) == a[1] * b[2] < b[1] * a[2]
RLe(a, b) == a[1] * b[2] <= b[1] * a[2]
RGt(a, b) == RLt(b, a)
RMax(a, b) == IF RLt(a, b) THEN b ELSE a
RMin(a, b) == IF RLt(b, a) THEN b ELSE a

RECURSIVE SeqSum(_)
SeqSum(s) == IF s = <<>> THEN 0 ELSE s[1] + SeqSum(Tail(s))

RECURSIVE RSeqSum(_)
RSeqSum(s) == IF s = <<>> THEN Zero ELSE RAdd(s[1], RSeqSum(Tail(s)))

\* np.mean of a non-empty sequence of numbers
Mean(s) == RDiv(RSeqSum(s), RInt(Len(s)))

\* np.var (population variance, ddof = 0) of a non-empty sequence of numbers
Var(s) ==
    LET m == Mean(s)
        sq == [i \in 1..Len(s) |-> RMul(RSub(s[i], m), RSub(s[i], m))]
    IN  RDiv(RSeqSum(sq), RInt(Len(s)))

\* a value that is not a number (None, a string): arithmetic on it raises
NotANumber == <<0, 0>>
IsNum(v) == v[2] # 0

\* Python 3 round(x) with no ndigits: to the nearest integer, ties to even
Round(a) ==
    LET q == a[1] \div a[2]
        r == a[1] - q * a[2]
    IN  IF 2 * r < a[2] THEN q
        ELSE IF 2 * r > a[2] THEN q + 1
        ELSE IF q % 2 = 0 THEN q ELSE q + 1

----------------------------------------------------------------------------
(* Strings as sequences of characters *)

Digits == <<"0", "1", "2", "3", "4", "5", "6", "7", "8", "9">>

DigitVal(c) == CHOOSE v \in 0..9 : Digits[v + 1] = c
IsDigit(c) == \E v \in 0..9 : Digits[v + 1] = c

\* str(n) / f"{n}" for an integer n
RECURSIVE NatToStr(_)
NatToStr(n) == IF n < 10 THEN <<Digits[n + 1]>>
               ELSE NatToStr(n \div 10) \o <<Digits[(n % 10) + 1]>>
IntToStr(n) == IF n < 0 THEN <<"-">> \o NatToStr(-n) ELSE NatToStr(n)

\* f"{home}-{away}"
FormatScore(h, a) == IntToStr(h) \o <<"-">> \o IntToStr(a)

----------------------------------------------------------------------------
(* Feature vectors: a dict from feature name to value; <<>> is the empty   *)
(* dict (features = None or {} are both falsy in `if features:`).          *)

Get(d, k, default) == IF k \in DOMAIN d THEN d[k] ELSE default
Truthy(d) == DOMAIN d # {}
NoFeatures == <<>>

FV(hf, af, hatt, adef, aatt, hdef) ==
    [k \in {"home_form", "away_form", "home_attack_strength",
            "away_defense_strength", "away_attack_strength",
            "home_defense_strength"} |->
        CASE k = "home_form" -> hf
          [] k = "away_form" -> af
          [] k = "home_attack_strength" -> hatt
          [] k = "away_defense_strength" -> adef
          [] k = "away_attack_strength" -> aatt
          [] k = "home_defense_strength" -> hdef]

\* forms in [0,1], positive strengths
ValidFeatures ==
    { NoFeatures,
      FV(Half, Half, One, One, One, One),
      FV(R(7, 10), R(1, 5), R(6, 5), One, One, R(4, 5)),
      FV(R(1, 5), R(7, 10), One, R(4, 5), R(6, 5), One),
      FV(One, Zero, R(6, 5), R(4, 5), R(4, 5), R(6, 5)) }

\* the feature vectors handed to fit
FitFeatures ==
    { NoFeatures,
      FV(Half, Half, One, One, One, One),
      FV(R(7, 10), R(1, 5), R(6, 5), One, One, R(4, 5)) }

\* a feature vector whose home_form is not a number
BadFormFeatures == FV(NotANumber, Half, One, One, One, One)

FeatureVectors == ValidFeatures \cup {BadFormFeatures}

\* Goal History: sequences of goal counts, most recent first
MaxHist == 2
GoalValues == {0, 3}

SeqsUpTo(S, n) == UNION {[1..m -> S] : m \in 0..n}
GoalHistories == SeqsUpTo({RInt(g) : g \in GoalValues}, MaxHist)

----------------------------------------------------------------------------
(* scipy.stats distributions, evaluated on a decimal grid.                 *)
(* The distribution's argument is cut to 1/ArgGrid, the series of its      *)
(* unnormalised terms  t(0) = 1, t(k) = t(k-1) * ratio(k)  is summed over  *)
(* 0..SeriesLen in units of 1/SeriesUnit, and pmf(k) = t(k) / sum is cut   *)
(* to 1/ProbGrid.  The result is an integer number of 1/ProbGrid.          *)

ArgGrid == 100
SeriesUnit == 100
ProbGrid == 30
SeriesLen == 40

ToGrid(a, g) == (a[1] * g) \div a[2]

\* np.arange(0, n)
Arange(n) == [i \in 1..n |-> i - 1]

\* the terms t(0), ..., t(k) of the Poisson series
RECURSIVE PoissonSeries(_, _)
PoissonSeries(lamG, k) ==
    IF k = 0 THEN <<SeriesUnit>>
    ELSE LET t == PoissonSeries(lamG, k - 1)
         IN  Append(t, (t[k] * lamG) \div (ArgGrid * k))

\* stats.poisson.pmf(scores, lam) for lam > 0:  t(k) = t(k-1) * lam / k
PoissonPmf(scores, lam) ==
    LET t == PoissonSeries(ToGrid(lam, ArgGrid), SeriesLen)
        total == SeqSum(t)
    IN  [i \in 1..Len(scores) |-> (t[scores[i] + 1] * ProbGrid) \div total]

\* the terms t(0), ..., t(k) of the negative binomial series
RECURSIVE NbinomSeries(_, _, _)
NbinomSeries(nG, qG, k) ==
    IF k = 0 THEN <<SeriesUnit>>
    ELSE LET t == NbinomSeries(nG, qG, k - 1)
         IN  Append(t, (t[k] * (((nG + (k - 1) * ArgGrid) * qG) \div (ArgGrid * k)))
                          \div ArgGrid)

\* stats.nbinom.pmf(scores, n, p) for n > 0, 0 < p < 1:
\*   t(k) = t(k-1) * (n + k - 1) / k * (1 - p)
NbinomPmf(scores, n, p) ==
    LET t == NbinomSeries(ToGrid(n, ArgGrid), ToGrid(RSub(One, p), ArgGrid), SeriesLen)
        total == SeqSum(t)
    IN  [i \in 1..Len(scores) |-> (t[scores[i] + 1] * ProbGrid) \div total]

\* f[1] + ... + f[n]
RECURSIVE SumTo(_, _)
SumTo(f, n) == IF n = 0 THEN 0 ELSE f[n] + SumTo(f, n - 1)

\* The double loop over the score grid (poisson.py 60-72): the joint mass
\* prob = home_probs[i] * away_probs[j] of every cell (i, j) is added to the
\* bucket of the cell: "home" when home_scores[i] > away_scores[j], "draw"
\* when equal, "away" otherwise.  In units of 1/ProbGrid^2.
BucketTiesHome(home_score, away_score) ==
    IF home_score >= away_score THEN "home" ELSE "away"

Bucket(home_score, away_score) ==
    IF home_score > away_score THEN "home"
    ELSE IF home_score = away_score THEN "draw"
    ELSE "away"

BucketSum(home_scores, away_scores, home_probs, away_probs, bucket) ==
    SumTo([i \in 1..Len(home_scores) |->
             SumTo([j \in 1..Len(away_scores) |->
                      IF Bucket(home_scores[i], away_scores[j]) = bucket
                      THEN home_probs[i] * away_probs[j] ELSE 0],
                   Len(away_scores))],
          Len(home_scores))

\* the three buckets left as they are summed (no division by their total)
BucketsAsSummed(home_scores, away_scores, home_probs, away_probs) ==
    [home |-> R(BucketSum(home_scores, away_scores, home_probs, away_probs, "home"),
                ProbGrid * ProbGrid),
     draw |-> R(BucketSum(home_scores, away_scores, home_probs, away_probs, "draw"),
                ProbGrid * ProbGrid),
     away |-> R(BucketSum(home_scores, away_scores, home_probs, away_probs, "away"),
                ProbGrid * ProbGrid)]

\* lines 59-79 of poisson.py (and 83-103 of negative_binomial.py): the three
\* buckets, divided by their total when it is positive
OutcomeProbabilities(home_scores, away_scores, home_probs, away_probs) ==
    LET home_win == BucketSum(home_scores, away_scores, home_probs, away_probs, "home")
        draw == BucketSum(home_scores, away_scores, home_probs, away_probs, "draw")
        away_win == BucketSum(home_scores, away_scores, home_probs, away_probs, "away")
        total == home_win + draw + away_win
    IN  IF total > 0
        THEN [home |-> R(home_win, total), draw |-> R(draw, total),
              away |-> R(away_win, total)]
        ELSE [home |-> R(home_win, ProbGrid * ProbGrid),
              draw |-> R(draw, ProbGrid * ProbGrid),
              away |-> R(away_win, ProbGrid * ProbGrid)]

----------------------------------------------------------------------------
(* PoissonModel *)

max_score == 10

PoissonModel ==
    [kind |-> "poisson", home_lambda |-> R(3, 2), away_lambda |-> R(6, 5)]

PoissonDefaultPrediction ==
    [home_probability |-> R(33, 100), draw_probability |-> R(34, 100),
     away_probability |-> R(33, 100), predicted_score |-> <<"1", "-", "1">>,
     home_lambda |-> R(3, 2), away_lambda |-> R(6, 5)]

\* fit with the home rate scaled by the home side's own defense strength
PoissonFitOwnDefense(self, home_goals, away_goals, features) ==
    LET hl == IF Len(home_goals) > 0 THEN RMax(Mean(home_goals), R(1, 10)) ELSE R(3, 2)
        al == IF Len(away_goals) > 0 THEN RMax(Mean(away_goals), R(1, 10)) ELSE R(6, 5)
    IN  IF Truthy(features)
        THEN [self EXCEPT
                !.home_lambda = RMul(hl, RMul(Get(features, "home_attack_strength", One),
                                              Get(features, "home_defense_strength", One))),
                !.away_lambda = RMul(al, RMul(Get(features, "away_attack_strength", One),
                                              Get(features, "home_defense_strength", One)))]
        ELSE [self EXCEPT !.home_lambda = hl, !.away_lambda = al]

\* fit: both rates are assigned before the strengths are read, and a
\* strength that is no number raises in its product, which ends the method
\* (the exception is logged) with what was assigned until then
PoissonFit(self, home_goals, away_goals, features) ==
    LET hl == IF Len(home_goals) > 0 THEN RMax(Mean(home_goals), R(1, 10)) ELSE R(3, 2)
        al == IF Len(away_goals) > 0 THEN RMax(Mean(away_goals), R(1, 10)) ELSE R(6, 5)
    IN  IF ~Truthy(features)
        THEN [self EXCEPT !.home_lambda = hl, !.away_lambda = al]
        ELSE IF ~IsNum(Get(features, "home_attack_strength", One))
                \/ ~IsNum(Get(features, "away_defense_strength", One))
        THEN [self EXCEPT !.home_lambda = hl, !.away_lambda = al]
        ELSE IF ~IsNum(Get(features, "away_attack_strength", One))
                \/ ~IsNum(Get(features, "home_defense_strength", One))
        THEN [self EXCEPT
                !.home_lambda = RMul(hl, RMul(Get(features, "home_attack_strength", One),
                                              Get(features, "away_defense_strength", One))),
                !.away_lambda = al]
        ELSE [self EXCEPT
                !.home_lambda = RMul(hl, RMul(Get(features, "home_attack_strength", One),
                                              Get(features, "away_defense_strength", One))),
                !.away_lambda = RMul(al, RMul(Get(features, "away_attack_strength", One),
                                              Get(features, "home_defense_strength", One)))]

MostLikelyScore(home_rate, away_rate) == FormatScore(Round(home_rate), Round(away_rate))

PoissonPredict(self, features) ==
    IF Truthy(features) /\ (~IsNum(Get(features, "home_form", Half))
                            \/ ~IsNum(Get(features, "away_form", Half)))
    THEN PoissonDefaultPrediction
    ELSE
    LET home_lambda == IF Truthy(features)
                       THEN RMul(self.home_lambda, RAdd(Half, Get(features, "home_form", Half)))
                       ELSE self.home_lambda
        away_lambda == IF Truthy(features)
                       THEN RMul(self.away_lambda, RAdd(Half, Get(features, "away_form", Half)))
                       ELSE self.away_lambda
        home_scores == Arange(max_score)
        away_scores == Arange(max_score)
        p == OutcomeProbabilities(home_scores, away_scores,
                                  PoissonPmf(home_scores, home_lambda),
                                  PoissonPmf(away_scores, away_lambda))
    IN  [home_probability |-> p.home, draw_probability |-> p.draw,
         away_probability |-> p.away,
         predicted_score |-> MostLikelyScore(home_lambda, away_lambda),
         home_lambda |-> home_lambda, away_lambda |-> away_lambda]

----------------------------------------------------------------------------
(* NegativeBinomialModel *)

NegativeBinomialModel ==
    [kind |-> "negative_binomial", home_mu |-> R(3, 2), home_alpha |-> One,
     away_mu |-> R(6, 5), away_alpha |-> One]

NBDefaultPrediction ==
    [home_probability |-> R(33, 100), draw_probability |-> R(34, 100),
     away_probability |-> R(33, 100), predicted_score |-> <<"1", "-", "1">>,
     home_mu |-> R(3, 2), away_mu |-> R(6, 5), home_alpha |-> One, away_alpha |-> One]

\* max(mean ** 2 / (var - mean), 0.1) if var > mean else 1.0
MomentAlpha(mean, var) ==
    IF RGt(var, mean)
    THEN RMax(RDiv(RMul(mean, mean), RSub(var, mean)), R(1, 10))
    ELSE One

\* fit: the moments are assigned before the strengths are read; a strength
\* that is no number raises in its product and ends the method there
NBFit(self, home_goals, away_goals, features) ==
    LET h == IF Len(home_goals) > 1
             THEN [mu |-> RMax(Mean(home_goals), R(1, 10)),
                   alpha |-> MomentAlpha(Mean(home_goals), Var(home_goals))]
             ELSE [mu |-> self.home_mu, alpha |-> self.home_alpha]
        a == IF Len(away_goals) > 1
             THEN [mu |-> RMax(Mean(away_goals), R(1, 10)),
                   alpha |-> MomentAlpha(Mean(away_goals), Var(away_goals))]
             ELSE [mu |-> self.away_mu, alpha |-> self.away_alpha]
    IN  IF ~Truthy(features)
        THEN [self EXCEPT !.home_mu = h.mu, !.home_alpha = h.alpha,
                          !.away_mu = a.mu, !.away_alpha = a.alpha]
        ELSE IF ~IsNum(Get(features, "home_attack_strength", One))
                \/ ~IsNum(Get(features, "away_defense_strength", One))
        THEN [self EXCEPT !.home_mu = h.mu, !.home_alpha = h.alpha,
                          !.away_mu = a.mu, !.away_alpha = a.alpha]
        ELSE IF ~IsNum(Get(features, "away_attack_strength", One))
                \/ ~IsNum(Get(features, "home_defense_strength", One))
        THEN [self EXCEPT
                !.home_mu = RMul(h.mu, RMul(Get(features, "home_attack_strength", One),
                                            Get(features, "away_defense_strength", One))),
                !.home_alpha = h.alpha,
                !.away_mu = a.mu, !.away_alpha = a.alpha]
        ELSE [self EXCEPT
                !.home_mu = RMul(h.mu, RMul(Get(features, "home_attack_strength", One),
                                            Get(features, "away_defense_strength", One))),
                !.home_alpha = h.alpha,
                !.away_mu = RMul(a.mu, RMul(Get(features, "away_attack_strength", One),
                                            Get(features, "home_defense_strength", One))),
                !.away_alpha = a.alpha]

NBPredict(self, features) ==
    IF Truthy(features) /\ (~IsNum(Get(features, "home_form", Half))
                            \/ ~IsNum(Get(features, "away_form", Half)))
    THEN NBDefaultPrediction
    ELSE
    LET home_mu == IF Truthy(features)
                   THEN RMul(self.home_mu, RAdd(Half, Get(features, "home_form", Half)))
                   ELSE self.home_mu
        away_mu == IF Truthy(features)
                   THEN RMul(self.away_mu, RAdd(Half, Get(features, "away_form", Half)))
                   ELSE self.away_mu
        home_alpha == self.home_alpha
        away_alpha == self.away_alpha
        home_scores == Arange(max_score)
        away_scores == Arange(max_score)
        p == OutcomeProbabilities(home_scores, away_scores,
                NbinomPmf(home_scores, home_alpha, RDiv(home_alpha, RAdd(home_alpha, home_mu))),
                NbinomPmf(away_scores, away_alpha, RDiv(away_alpha, RAdd(away_alpha, away_mu))))
    IN  [home_probability |-> p.home, draw_probability |-> p.draw,
         away_probability |-> p.away,
         predicted_score |-> MostLikelyScore(home_mu, away_mu),
         home_mu |-> home_mu, away_mu |-> away_mu,
         home_alpha |-> home_alpha, away_alpha |-> away_alpha]

----------------------------------------------------------------------------
(* HawkesModel *)

HawkesModel ==
    [kind |-> "hawkes", lambda0_home |-> R(1, 20), lambda0_away |-> R(1, 25),
     alpha |-> R(1, 5), beta |-> One]

HawkesDefaultPrediction ==
    [home_probability |-> R(35, 100), draw_probability |-> R(32, 100),
     away_probability |-> R(33, 100), predicted_score |-> <<"1", "-", "1">>,
     home_goals |-> 1, away_goals |-> 1]

HawkesFit(self, home_goals, away_goals, features) ==
    LET h == IF Len(home_goals) > 0
             THEN RMax(R(1, 100), RMul(Mean(home_goals), R(5, 100)))
             ELSE self.lambda0_home
        a == IF Len(away_goals) > 0
             THEN RMax(R(1, 100), RMul(Mean(away_goals), R(4, 100)))
             ELSE self.lambda0_away
    IN  IF Truthy(features)
        THEN [self EXCEPT
                !.lambda0_home = RMul(h, RAdd(Half, Get(features, "home_form", Half))),
                !.lambda0_away = RMul(a, RAdd(Half, Get(features, "away_form", Half)))]
        ELSE [self EXCEPT !.lambda0_home = h, !.lambda0_away = a]

\* _simulate_goals(base_intensity, match_length, simulations = 100) returns
\* goal_counts: one goal count per simulation run.  The counts depend on the
\* random draws; the outcomes modelled are the array of scoreless runs and
\* the arrays whose runs score g, g+1, ..., MaxSimGoals, 0, 1, ... goals in
\* turn, for g in 0..MaxSimGoals.
\* With a base intensity of 0 the first waiting time is infinite and every
\* run ends without a goal.
simulations == 100
MaxSimGoals == 1

\* With a match length of 0 the loop over the match is never entered.
SimulateGoals(base_intensity, match_length, n) ==
    IF base_intensity = Zero \/ ~RGt(match_length, Zero)
    THEN {[i \in 1..n |-> 0]}
    ELSE {[i \in 1..n |-> 0]}
            \cup {[i \in 1..n |-> (g + i - 1) % (MaxSimGoals + 1)] : g \in 0..MaxSimGoals}

\* predict with 0.40 for each side where the code falls back to 0.45
HawkesPredictWiderFallback(self, match_length, home_goals_simulated, away_goals_simulated) ==
    IF ~IsNum(match_length) THEN HawkesDefaultPrediction
    ELSE
    LET num_home_goals == Len(home_goals_simulated)
        num_away_goals == Len(away_goals_simulated)
        total_goals == num_home_goals + num_away_goals
        home_intensity == RMul(self.lambda0_home, match_length)
        away_intensity == RMul(self.lambda0_away, match_length)
        total_intensity == RAdd(home_intensity, away_intensity)
        home_prob == IF total_goals > 0
                     THEN (IF RGt(total_intensity, Zero)
                           THEN RDiv(home_intensity, total_intensity) ELSE R(40, 100))
                     ELSE R(40, 100)
        away_prob == IF total_goals > 0
                     THEN (IF RGt(total_intensity, Zero)
                           THEN RDiv(away_intensity, total_intensity) ELSE R(40, 100))
                     ELSE R(40, 100)
        draw_prob == RMax(Zero, RSub(RSub(One, home_prob), away_prob))
        total_prob == RAdd(RAdd(home_prob, draw_prob), away_prob)
        norm(x) == IF RGt(total_prob, Zero) THEN RDiv(x, total_prob) ELSE x
    IN  [home_probability |-> norm(home_prob), draw_probability |-> norm(draw_prob),
         away_probability |-> norm(away_prob),
         predicted_score |-> FormatScore(num_home_goals, num_away_goals),
         home_goals |-> num_home_goals, away_goals |-> num_away_goals]

\* predict with 0.5 for each side where the code falls back to 0.45
HawkesPredictEvenFallback(self, match_length, home_goals_simulated, away_goals_simulated) ==
    IF ~IsNum(match_length) THEN HawkesDefaultPrediction
    ELSE
    LET num_home_goals == Len(home_goals_simulated)
        num_away_goals == Len(away_goals_simulated)
        total_goals == num_home_goals + num_away_goals
        home_intensity == RMul(self.lambda0_home, match_length)
        away_intensity == RMul(self.lambda0_away, match_length)
        total_intensity == RAdd(home_intensity, away_intensity)
        home_prob == IF total_goals > 0
                     THEN (IF RGt(total_intensity, Zero)
                           THEN RDiv(home_intensity, total_intensity) ELSE Half)
                     ELSE Half
        away_prob == IF total_goals > 0
                     THEN (IF RGt(total_intensity, Zero)
                           THEN RDiv(away_intensity, total_intensity) ELSE Half)
                     ELSE Half
        draw_prob == RMax(Zero, RSub(RSub(One, home_prob), away_prob))
        total_prob == RAdd(RAdd(home_prob, draw_prob), away_prob)
        norm(x) == IF RGt(total_prob, Zero) THEN RDiv(x, total_prob) ELSE x
    IN  [home_probability |-> norm(home_prob), draw_probability |-> norm(draw_prob),
         away_probability |-> norm(away_prob),
         predicted_score |-> FormatScore(num_home_goals, num_away_goals),
         home_goals |-> num_home_goals, away_goals |-> num_away_goals]

\* predict with the goals of all runs where the code takes the number of runs
HawkesPredictFromCounts(self, match_length, home_goals_simulated, away_goals_simulated) ==
    IF ~IsNum(match_length) THEN HawkesDefaultPrediction
    ELSE
    LET num_home_goals == SeqSum(home_goals_simulated)
        num_away_goals == SeqSum(away_goals_simulated)
        total_goals == num_home_goals + num_away_goals
        home_intensity == RMul(self.lambda0_home, match_length)
        away_intensity == RMul(self.lambda0_away, match_length)
        total_intensity == RAdd(home_intensity, away_intensity)
        home_prob == IF total_goals > 0
                     THEN (IF RGt(total_intensity, Zero)
                           THEN RDiv(home_intensity, total_intensity) ELSE R(45, 100))
                     ELSE R(45, 100)
        away_prob == IF total_goals > 0
                     THEN (IF RGt(total_intensity, Zero)
                           THEN RDiv(away_intensity, total_intensity) ELSE R(45, 100))
                     ELSE R(45, 100)
        draw_prob == RMax(Zero, RSub(RSub(One, home_prob), away_prob))
        total_prob == RAdd(RAdd(home_prob, draw_prob), away_prob)
        norm(x) == IF RGt(total_prob, Zero) THEN RDiv(x, total_prob) ELSE x
    IN  [home_probability |-> norm(home_prob), draw_probability |-> norm(draw_prob),
         away_probability |-> norm(away_prob),
         predicted_score |-> FormatScore(num_home_goals, num_away_goals),
         home_goals |-> num_home_goals, away_goals |-> num_away_goals]

\* predict, given the two arrays that _simulate_goals returned
HawkesPredict(self, match_length, home_goals_simulated, away_goals_simulated) ==
    IF ~IsNum(match_length) THEN HawkesDefaultPrediction
    ELSE
    LET num_home_goals == Len(home_goals_simulated)
        num_away_goals == Len(away_goals_simulated)
        total_goals == num_home_goals + num_away_goals
        home_intensity == RMul(self.lambda0_home, match_length)
        away_intensity == RMul(self.lambda0_away, match_length)
        total_intensity == RAdd(home_intensity, away_intensity)
        home_prob == IF total_goals > 0
                     THEN (IF RGt(total_intensity, Zero)
                           THEN RDiv(home_intensity, total_intensity) ELSE R(45, 100))
                     ELSE R(45, 100)
        away_prob == IF total_goals > 0
                     THEN (IF RGt(total_intensity, Zero)
                           THEN RDiv(away_intensity, total_intensity) ELSE R(45, 100))
                     ELSE R(45, 100)
        draw_prob == RMax(Zero, RSub(RSub(One, home_prob), away_prob))
        total_prob == RAdd(RAdd(home_prob, draw_prob), away_prob)
        norm(x) == IF RGt(total_prob, Zero) THEN RDiv(x, total_prob) ELSE x
    IN  [home_probability |-> norm(home_prob), draw_probability |-> norm(draw_prob),
         away_probability |-> norm(away_prob),
         predicted_score |-> FormatScore(num_home_goals, num_away_goals),
         home_goals |-> num_home_goals, away_goals |-> num_away_goals]

----------------------------------------------------------------------------
(* HMMFormModel *)

\* rows: Good, Medium, Poor form; columns: win, draw, loss
emission_probs ==
    << <<R(80, 100), R(15, 100), R(5, 100)>>,
       <<R(40, 100), R(40, 100), R(20, 100)>>,
       <<R(10, 100), R(30, 100), R(60, 100)>> >>

HMMFormModel ==
    [kind |-> "hmm", state_probs |-> <<R(33, 100), R(33, 100), R(34, 100)>>]

HMMDefaultPrediction ==
    [home_probability |-> R(33, 100), draw_probability |-> R(34, 100),
     away_probability |-> R(33, 100), predicted_score |-> <<"1", "-", "1">>,
     home_state |-> 1, away_state |-> 1]

HMMFit(self, results) ==
    IF Len(results) < 5 THEN self
    ELSE LET win_rate == Mean(results)
         IN  IF RGt(win_rate, R(6, 10))
             THEN [self EXCEPT !.state_probs = <<R(70, 100), R(25, 100), R(5, 100)>>]
             ELSE IF RGt(win_rate, R(4, 10))
             THEN [self EXCEPT !.state_probs = <<R(30, 100), R(50, 100), R(20, 100)>>]
             ELSE [self EXCEPT !.state_probs = <<R(10, 100), R(30, 100), R(60, 100)>>]

\* _get_state_from_form: 0 good, 1 medium, 2 poor
StateFromFormInclusive(form) ==
    IF RLe(R(65, 100), form) THEN 0
    ELSE IF RLe(R(35, 100), form) THEN 1
    ELSE 2

StateFromForm(form) ==
    IF RGt(form, R(65, 100)) THEN 0
    ELSE IF RGt(form, R(35, 100)) THEN 1
    ELSE 2

state_goals == <<R(18, 10), R(13, 10), R(8, 10)>>

PredictScore(home_state, away_state) ==
    FormatScore(Round(state_goals[home_state + 1]), Round(state_goals[away_state + 1]))

\* predict with the home state taken from a prior that favours good form
HMMPredictPriorFirst(self, features) ==
    LET home_form == IF Truthy(features) THEN Get(features, "home_form", Half) ELSE Half
        away_form == IF Truthy(features) THEN Get(features, "away_form", Half) ELSE Half
    IN  IF ~IsNum(home_form) \/ ~IsNum(away_form) THEN HMMDefaultPrediction
        ELSE
        LET home_state == IF RGt(self.state_probs[1], Half) THEN 0
                          ELSE StateFromForm(home_form)
            away_state == StateFromForm(away_form)
            home_emissions == emission_probs[home_state + 1]
            away_emissions == emission_probs[away_state + 1]
            home_prob == RMul(home_emissions[1], RSub(One, away_emissions[3]))
            away_prob == RMul(away_emissions[3], RSub(One, home_emissions[1]))
            draw_prob == RSub(RSub(One, home_prob), away_prob)
            total == RAdd(RAdd(home_prob, draw_prob), away_prob)
            norm(x) == IF RGt(total, Zero) THEN RDiv(x, total) ELSE x
        IN  [home_probability |-> norm(home_prob), draw_probability |-> norm(draw_prob),
             away_probability |-> norm(away_prob),
             predicted_score |-> PredictScore(home_state, away_state),
             home_state |-> home_state, away_state |-> away_state]

HMMPredict(self, features) ==
    LET home_form == IF Truthy(features) THEN Get(features, "home_form", Half) ELSE Half
        away_form == IF Truthy(features) THEN Get(features, "away_form", Half) ELSE Half
    IN  IF ~IsNum(home_form) \/ ~IsNum(away_form) THEN HMMDefaultPrediction
        ELSE
        LET home_state == StateFromForm(home_form)
            away_state == StateFromForm(away_form)
            home_emissions == emission_probs[home_state + 1]
            away_emissions == emission_probs[away_state + 1]
            home_prob == RMul(home_emissions[1], RSub(One, away_emissions[3]))
            away_prob == RMul(away_emissions[3], RSub(One, home_emissions[1]))
            draw_prob == RSub(RSub(One, home_prob), away_prob)
            total == RAdd(RAdd(home_prob, draw_prob), away_prob)
            norm(x) == IF RGt(total, Zero) THEN RDiv(x, total) ELSE x
        IN  [home_probability |-> norm(home_prob), draw_probability |-> norm(draw_prob),
             away_probability |-> norm(away_prob),
             predicted_score |-> PredictScore(home_state, away_state),
             home_state |-> home_state, away_state |-> away_state]

\* Result History: 1.0 win, 0.5 draw, 0.0 loss
MaxResults == 5
ResultHistories == SeqsUpTo({Zero, Half, One}, MaxResults)

----------------------------------------------------------------------------
(* The models specification: one instance of one of the four model classes *)
(* receives fit calls and then predict calls.  predict leaves the instance *)
(* unchanged and its result depends on nothing but the instance and its    *)
(* arguments, so calls after a predict reach no state that the calls       *)
(* before it do not reach: calls are taken while ret = None.               *)

MaxCalls == 2

\* what the other components hold while a model instance is exercised
IdleMoE == None
IdleDb == <<>>
IdlePipe == None
IdleRows == <<>>

Init ==
    /\ inst \in {PoissonModel, NegativeBinomialModel, HawkesModel, HMMFormModel}
    /\ fresh = inst
    /\ calls = 0
    /\ ret = None
    /\ given = None
    /\ sim = None
    /\ moe = IdleMoE
    /\ db = IdleDb
    /\ pipe = IdlePipe
    /\ rows = IdleRows

PoissonFitCall ==
    /\ inst.kind = "poisson"
    /\ calls < MaxCalls
    /\ ret = None
    /\ \E home_goals \in GoalHistories, away_goals \in GoalHistories, features \in FitFeatures :
        /\ inst' = PoissonFit(inst, home_goals, away_goals, features)
        /\ fresh' = PoissonFit(PoissonModel, home_goals, away_goals, features)
    /\ calls' = calls + 1
    /\ ret' = None
    /\ given' = None
    /\ sim' = None
    /\ UNCHANGED <<moe, db, pipe, rows>>

PoissonPredictCall ==
    /\ inst.kind = "poisson"
    /\ ret = None
    /\ \E features \in FeatureVectors :
        /\ ret' = PoissonPredict(inst, features)
        /\ given' = [features |-> features]
    /\ sim' = None
    /\ UNCHANGED <<inst, fresh, calls, moe, db, pipe, rows>>

NBFitCall ==
    /\ inst.kind = "negative_binomial"
    /\ calls < MaxCalls
    /\ ret = None
    /\ \E home_goals \in GoalHistories, away_goals \in GoalHistories, features \in FitFeatures :
        /\ inst' = NBFit(inst, home_goals, away_goals, features)
        /\ fresh' = NBFit(NegativeBinomialModel, home_goals, away_goals, features)
    /\ calls' = calls + 1
    /\ ret' = None
    /\ given' = None
    /\ sim' = None
    /\ UNCHANGED <<moe, db, pipe, rows>>

NBPredictCall ==
    /\ inst.kind = "negative_binomial"
    /\ ret = None
    /\ \E features \in FeatureVectors :
        /\ ret' = NBPredict(inst, features)
        /\ given' = [features |-> features]
    /\ sim' = None
    /\ UNCHANGED <<inst, fresh, calls, moe, db, pipe, rows>>

\* fit also with forms of -0.5, which bring both base intensities to 0
HawkesFitFeatures == FitFeatures \cup {FV(R(-1, 2), R(-1, 2), One, One, One, One)}

HawkesFitCall ==
    /\ inst.kind = "hawkes"
    /\ calls < MaxCalls
    /\ ret = None
    /\ \E home_goals \in GoalHistories, away_goals \in GoalHistories, features \in HawkesFitFeatures :
        /\ inst' = HawkesFit(inst, home_goals, away_goals, features)
        /\ fresh' = HawkesFit(HawkesModel, home_goals, away_goals, features)
    /\ calls' = calls + 1
    /\ ret' = None
    /\ given' = None
    /\ sim' = None
    /\ UNCHANGED <<moe, db, pipe, rows>>

MatchLengths == {RInt(90), RInt(45), Zero, NotANumber}

HawkesPredictCall ==
    /\ inst.kind = "hawkes"
    /\ ret = None
    /\ \E match_length \in MatchLengths :
         /\ given' = [match_length |-> match_length]
         /\ IF IsNum(match_length)
            THEN \E hs \in SimulateGoals(inst.lambda0_home, match_length, simulations),
                    as \in SimulateGoals(inst.lambda0_away, match_length, simulations) :
                    /\ ret' = HawkesPredict(inst, match_length, hs, as)
                    /\ sim' = [home |-> hs, away |-> as]
            ELSE /\ ret' = HawkesPredict(inst, match_length, <<>>, <<>>)
                 /\ sim' = None
    /\ UNCHANGED <<inst, fresh, calls, moe, db, pipe, rows>>

HMMFitCall ==
    /\ inst.kind = "hmm"
    /\ calls < MaxCalls
    /\ ret = None
    /\ \E results \in ResultHistories :
        /\ inst' = HMMFit(inst, results)
        /\ fresh' = HMMFit(HMMFormModel, results)
    /\ calls' = calls + 1
    /\ ret' = None
    /\ given' = None
    /\ sim' = None
    /\ UNCHANGED <<moe, db, pipe, rows>>

\* predict also with forms on the two thresholds and with a feature vector
\* that holds no form
HMMFeatureVectors ==
    FeatureVectors
        \cup {FV(R(65, 100), R(35, 100), One, One, One, One),
              FV(R(35, 100), R(65, 100), One, One, One, One),
              [k \in {"home_attack_strength", "away_attack_strength"} |-> One]}

HMMPredictCall ==
    /\ inst.kind = "hmm"
    /\ ret = None
    /\ \E features \in HMMFeatureVectors :
        /\ ret' = HMMPredict(inst, features)
        /\ given' = [features |-> features]
    /\ sim' = None
    /\ UNCHANGED <<inst, fresh, calls, moe, db, pipe, rows>>

Next ==
    \/ PoissonFitCall \/ PoissonPredictCall
    \/ NBFitCall \/ NBPredictCall
    \/ HawkesFitCall \/ HawkesPredictCall
    \/ HMMFitCall \/ HMMPredictCall

Spec == Init /\ [][Next]_vars

----------------------------------------------------------------------------
(* Properties of the scoring models *)

IsDistribution(p) ==
    /\ RLe(Zero, p.home_probability)
    /\ RLe(Zero, p.draw_probability)
    /\ RLe(Zero, p.away_probability)
    /\ RAdd(RAdd(p.home_probability, p.draw_probability), p.away_probability) = One

\* the latest predict call computed its result (it did not fall back to the
\* model's default prediction)
Computed ==
    /\ ret # None
    /\ "features" \in DOMAIN given =>
          \/ ~Truthy(given.features)
          \/ /\ IsNum(Get(given.features, "home_form", Half))
             /\ IsNum(Get(given.features, "away_form", Half))
    /\ "match_length" \in DOMAIN given => IsNum(given.match_length)

\* C1: whatever model, fitted on whatever history, and whatever feature
\* vector: the three probabilities predict returns are non-negative and sum
\* to 1, also when predict returns its default prediction.
C1_PredictIsDistribution == ret # None => IsDistribution(ret)

\* a prediction computed by a fitted count model, with all three outcomes possible
C1_WitnessComputed ==
    /\ Computed
    /\ calls > 0
    /\ inst.kind = "negative_binomial"
    /\ RGt(ret.home_probability, ret.away_probability)
    /\ RGt(ret.away_probability, Zero)

\* C3: a fit on an instance that was fitted before leaves the parameters
\* that the same fit leaves on a freshly constructed instance.
C3_RefitEqualsFreshFit == calls > 0 => inst = fresh

\* C8: the numbers of the Hawkes predicted_score, and home_goals / away_goals,
\* are the goal counts of one simulation run of each side.
C8_ScoreIsOneRunsGoalCount ==
    (inst.kind = "hawkes" /\ Computed) =>
        /\ \E i \in DOMAIN sim.home : ret.home_goals = sim.home[i]
        /\ \E j \in DOMAIN sim.away : ret.away_goals = sim.away[j]
        /\ ret.predicted_score = FormatScore(ret.home_goals, ret.away_goals)

\* C9: in the Form model home_probability is the home side's win emission
\* times (1 - the away side's loss emission), and away_probability is the
\* away side's win emission times (1 - the home side's loss emission).
C9_SymmetricCombination ==
    (inst.kind = "hmm" /\ Computed) =>
        LET home_emissions == emission_probs[ret.home_state + 1]
            away_emissions == emission_probs[ret.away_state + 1]
        IN  /\ ret.home_probability = RMul(home_emissions[1], RSub(One, away_emissions[3]))
            /\ ret.away_probability = RMul(away_emissions[1], RSub(One, home_emissions[3]))

\* C16: with both base intensities 0, HawkesModel.predict returns, for every
\* match length that is a number, home 0.45, away 0.45 and draw 0.10.
C16_ZeroIntensitiesFallBack ==
    (inst.kind = "hawkes" /\ Computed
        /\ inst.lambda0_home = Zero /\ inst.lambda0_away = Zero) =>
        /\ ret.home_probability = R(45, 100)
        /\ ret.away_probability = R(45, 100)
        /\ ret.draw_probability = R(10, 100)

\* a Hawkes instance fitted down to zero base intensities has predicted
C16_WitnessZeroIntensities ==
    /\ inst.kind = "hawkes"
    /\ Computed
    /\ calls > 0
    /\ inst.lambda0_home = Zero
    /\ inst.lambda0_away = Zero
    /\ ret.home_goals = simulations

----------------------------------------------------------------------------
(* MixtureOfExpertsModel *)

ModelNames == {"poisson", "negative_binomial", "hawkes", "hmm"}

MixtureOfExpertsModel ==
    [weights |-> [m \in ModelNames |-> R(1, 4)], model_performances |-> <<>>]

MoEDefaultPrediction(self) ==
    [home_probability |-> R(33, 100), draw_probability |-> R(34, 100),
     away_probability |-> R(33, 100), predicted_score |-> <<"1", "-", "1">>,
     confidence |-> Half, weights |-> self.weights,
     ensemble_type |-> "mixture_of_experts"]

\* sum(d[k] for k in keys)
RECURSIVE SumOver(_, _)
SumOver(d, keys) ==
    IF keys = {} THEN Zero
    ELSE LET k == CHOOSE x \in keys : TRUE
         IN  RAdd(d[k], SumOver(d, keys \ {k}))

\* fit_weights: only the names of model_performances are assigned, and only
\* when the performances have a positive total
FitWeights(self, model_performances) ==
    LET total_perf == SumOver(model_performances, DOMAIN model_performances)
        names == DOMAIN self.weights \cup DOMAIN model_performances
    IN  [weights |->
            IF RGt(total_perf, Zero)
            THEN [m \in names |->
                    IF m \in DOMAIN model_performances
                    THEN RDiv(model_performances[m], total_perf)
                    ELSE self.weights[m]]
            ELSE self.weights,
         model_performances |-> model_performances]

\* str.split(sep)
RECURSIVE Split(_, _)
Split(s, sep) ==
    IF \A i \in 1..Len(s) : s[i] # sep THEN <<s>>
    ELSE LET i == CHOOSE k \in 1..Len(s) : s[k] = sep /\ \A j \in 1..(k - 1) : s[j] # sep
         IN  <<SubSeq(s, 1, i - 1)>> \o Split(SubSeq(s, i + 1, Len(s)), sep)

\* int(s) strips surrounding white space
RECURSIVE Strip(_)
Strip(s) ==
    IF s = <<>> THEN s
    ELSE IF s[1] = " " THEN Strip(Tail(s))
    ELSE IF s[Len(s)] = " " THEN Strip(SubSeq(s, 1, Len(s) - 1))
    ELSE s

Unsigned(s) ==
    LET t == Strip(s) IN IF t # <<>> /\ t[1] \in {"+", "-"} THEN Tail(t) ELSE t

\* int(s) does not raise ValueError: an optional sign, then decimal digits
\* with single underscores between them
IsIntLiteral(s) ==
    LET b == Unsigned(s)
    IN  /\ b # <<>>
        /\ IsDigit(b[1])
        /\ IsDigit(b[Len(b)])
        /\ \A i \in 1..Len(b) : IsDigit(b[i]) \/ (b[i] = "_" /\ i > 1 /\ IsDigit(b[i - 1]))

RECURSIVE DigitsValue(_, _)
DigitsValue(b, acc) ==
    IF b = <<>> THEN acc
    ELSE IF b[1] = "_" THEN DigitsValue(Tail(b), acc)
    ELSE DigitsValue(Tail(b), 10 * acc + DigitVal(b[1]))

\* int(s) for a string that is an integer literal
IntValue(s) ==
    LET t == Strip(s)
        v == DigitsValue(Unsigned(s), 0)
    IN  IF t[1] = "-" THEN -v ELSE v

\* a value of the predictions map that is no dict (None)
NotADict == None

RECURSIVE SetToSeq(_)
SetToSeq(S) ==
    IF S = {} THEN <<>>
    ELSE LET x == CHOOSE y \in S : TRUE IN <<x>> \o SetToSeq(S \ {x})

\* list(d.values())
Values(d) == LET ks == SetToSeq(DOMAIN d) IN [i \in 1..Len(ks) |-> d[ks[i]]]

ScoreParts(pred) == Split(Get(pred, "predicted_score", <<"1", "-", "1">>), "-")

\* home_scores: int(parts[0]) is appended before int(parts[1]) is tried
RECURSIVE HomeScores(_)
HomeScores(preds) ==
    IF preds = <<>> THEN <<>>
    ELSE LET parts == ScoreParts(preds[1])
         IN  (IF Len(parts) = 2 /\ IsIntLiteral(parts[1])
              THEN <<RInt(IntValue(parts[1]))>> ELSE <<>>)
             \o HomeScores(Tail(preds))

\* away_scores: reached only when int(parts[0]) did not raise
RECURSIVE AwayScores(_)
AwayScores(preds) ==
    IF preds = <<>> THEN <<>>
    ELSE LET parts == ScoreParts(preds[1])
         IN  (IF Len(parts) = 2 /\ IsIntLiteral(parts[1]) /\ IsIntLiteral(parts[2])
              THEN <<RInt(IntValue(parts[2]))>> ELSE <<>>)
             \o AwayScores(Tail(preds))

\* _combine_scores with each side's goals added up where the code averages
CombineScoresSummed(predictions) ==
    IF \E m \in DOMAIN predictions : predictions[m] = NotADict
    THEN <<"1", "-", "1">>
    ELSE LET home_scores == HomeScores(Values(predictions))
             away_scores == AwayScores(Values(predictions))
         IN  IF home_scores # <<>> /\ away_scores # <<>>
             THEN FormatScore(Round(RSeqSum(home_scores)), Round(RSeqSum(away_scores)))
             ELSE <<"1", "-", "1">>

\* _combine_scores: over every value of the map, whatever its weight
CombineScores(predictions) ==
    IF \E m \in DOMAIN predictions : predictions[m] = NotADict
    THEN <<"1", "-", "1">>
    ELSE LET home_scores == HomeScores(Values(predictions))
             away_scores == AwayScores(Values(predictions))
         IN  IF home_scores # <<>> /\ away_scores # <<>>
             THEN FormatScore(Round(Mean(home_scores)), Round(Mean(away_scores)))
             ELSE <<"1", "-", "1">>

\* confidence of one input: its own, or its largest probability
ConfidenceOf(pred) ==
    IF "confidence" \in DOMAIN pred THEN pred["confidence"]
    ELSE RMax(RMax(Get(pred, "home_probability", Zero),
                   Get(pred, "draw_probability", Zero)),
              Get(pred, "away_probability", Zero))

MoEPredict(self, predictions) ==
    IF \E m \in DOMAIN predictions : predictions[m] = NotADict
    THEN MoEDefaultPrediction(self)
    ELSE
    LET present == DOMAIN self.weights \cap DOMAIN predictions
        weighted(field) ==
            SumOver([m \in present |->
                        RMul(self.weights[m], Get(predictions[m], field, Zero))],
                    present)
        weighted_home == weighted("home_probability")
        weighted_draw == weighted("draw_probability")
        weighted_away == weighted("away_probability")
        total == RAdd(RAdd(weighted_home, weighted_draw), weighted_away)
        norm(x) == IF RGt(total, Zero) THEN RDiv(x, total) ELSE x
        vals == Values(predictions)
        confidences == [i \in 1..Len(vals) |-> ConfidenceOf(vals[i])]
    IN  [home_probability |-> norm(weighted_home),
         draw_probability |-> norm(weighted_draw),
         away_probability |-> norm(weighted_away),
         predicted_score |-> CombineScores(predictions),
         confidence |-> IF confidences # <<>> THEN Mean(confidences) ELSE Half,
         weights |-> self.weights,
         ensemble_type |-> "mixture_of_experts"]

----------------------------------------------------------------------------
(* The combiner specification: one MixtureOfExpertsModel receives          *)
(* fit_weights calls and then predict calls (predict leaves the weights    *)
(* unchanged, so calls are taken while ret = None).                        *)

MaxFits == 2

OutcomePrediction(h, d, a, score) ==
    [home_probability |-> h, draw_probability |-> d, away_probability |-> a,
     predicted_score |-> score]

HomePrediction == OutcomePrediction(R(1, 2), R(3, 10), R(1, 5), <<"2", "-", "1">>)
AwayPrediction == OutcomePrediction(R(1, 5), R(3, 10), R(1, 2), <<"0", "-", "3">>)
ZeroPrediction == OutcomePrediction(Zero, Zero, Zero, <<"1", "-", "1">>)
NoScorePrediction ==
    [home_probability |-> R(1, 5), draw_probability |-> R(3, 10),
     away_probability |-> R(1, 2), confidence |-> R(9, 10)]

MalformedScores ==
    {<<"2", "-", "x">>, <<"x", "-", "2">>, <<"2">>, <<"1", "-", "2", "-", "3">>}

MalformedPredictions ==
    {OutcomePrediction(R(1, 5), R(3, 10), R(1, 2), s) : s \in MalformedScores}

\* predictions that vary independently per model name
VaryingPredictions ==
    {HomePrediction, AwayPrediction, ZeroPrediction,
     OutcomePrediction(R(1, 5), R(3, 10), R(1, 2), <<"2", "-", "x">>)}

\* a prediction as HawkesModel.predict returns it for equal intensities
EvenPrediction == OutcomePrediction(R(1, 2), Zero, R(1, 2), <<"1", "0", "0", "-", "1", "0", "0">>)

AllPredictions ==
    VaryingPredictions \cup MalformedPredictions
        \cup {NoScorePrediction, NotADict, EvenPrediction,
              OutcomePrediction(R(1, 5), R(3, 10), R(1, 2), <<" ", "4", "-", "+", "1", "_", "0">>)}

VaryingNames == {"poisson", "negative_binomial", "hmm"}
InputNames == ModelNames \cup {"ensemble"}

\* the input maps of predict: any prediction per name over three of the
\* names, and one common prediction under any set of names
PredictionMaps ==
    UNION {[S -> VaryingPredictions] : S \in SUBSET VaryingNames}
        \cup {[m \in S |-> p] : S \in SUBSET InputNames, p \in AllPredictions}

PerformanceNames == {"poisson", "ensemble"}
PerformanceValues == {Zero, One, RInt(3)}
PerformanceMaps == UNION {[S -> PerformanceValues] : S \in SUBSET PerformanceNames}

InitMoE ==
    /\ moe = MixtureOfExpertsModel
    /\ calls = 0
    /\ ret = None
    /\ given = None
    /\ inst = None
    /\ fresh = None
    /\ sim = None
    /\ db = IdleDb
    /\ pipe = IdlePipe
    /\ rows = IdleRows

FitWeightsCall ==
    /\ calls < MaxFits
    /\ ret = None
    /\ \E model_performances \in PerformanceMaps :
        moe' = FitWeights(moe, model_performances)
    /\ calls' = calls + 1
    /\ UNCHANGED <<inst, fresh, ret, given, sim, db, pipe, rows>>

MoEPredictCall ==
    /\ ret = None
    /\ \E predictions \in PredictionMaps :
        /\ ret' = MoEPredict(moe, predictions)
        /\ given' = [predictions |-> predictions]
    /\ UNCHANGED <<inst, fresh, calls, sim, moe, db, pipe, rows>>

NextMoE == FitWeightsCall \/ MoEPredictCall

SpecMoE == InitMoE /\ [][NextMoE]_vars

----------------------------------------------------------------------------
(* Properties of the combiner *)

\* the latest call was predict on a map whose values are all dicts
Combined == ret # None /\ \A m \in DOMAIN given.predictions : given.predictions[m] # NotADict

Restrict(d, keys) == [k \in keys |-> d[k]]

\* C2: whatever the input map (the empty map, a map without any weighted
\* name, all-zero probabilities, a value that is no dict), predict returns
\* three non-negative probabilities that sum to 1.
C2_CombinedIsDistribution == ret # None => IsDistribution(ret)

\* C5: the combined predicted_score is the one computed from the
\* predictions of the models whose weight is not 0.
C5_ZeroWeightAddsNoScore ==
    Combined =>
        LET zero == {m \in DOMAIN given.predictions \cap DOMAIN moe.weights :
                        moe.weights[m] = Zero}
        IN  ret.predicted_score =
                CombineScores(Restrict(given.predictions, DOMAIN given.predictions \ zero))

\* both numbers of the prediction's scoreline parse
WellFormed(pred) ==
    LET parts == ScoreParts(pred)
    IN  Len(parts) = 2 /\ IsIntLiteral(parts[1]) /\ IsIntLiteral(parts[2])

\* C6: the combined predicted_score is the one computed from the
\* predictions with a well-formed scoreline alone: a scoreline that does not
\* parse into two integers adds a value to neither side's average.
C6_MalformedScoreSkippedWhole ==
    Combined =>
        ret.predicted_score =
            CombineScores(Restrict(given.predictions,
                {m \in DOMAIN given.predictions : WellFormed(given.predictions[m])}))

\* the prediction is an Outcome Prediction: three probabilities in [0,1]
\* that sum to 1 and a scoreline written as two integers
IsOutcomePrediction(pred) ==
    /\ pred # NotADict
    /\ {"home_probability", "draw_probability", "away_probability",
         "predicted_score"} \subseteq DOMAIN pred
    /\ RAdd(RAdd(pred.home_probability, pred.draw_probability),
             pred.away_probability) = One
    /\ WellFormed(pred)
    /\ pred.predicted_score =
           FormatScore(IntValue(ScoreParts(pred)[1]), IntValue(ScoreParts(pred)[2]))

\* the latest call was predict, under the constructor's weights, on a map
\* that gives the four model names one and the same Outcome Prediction
FourIdentical ==
    /\ ret # None
    /\ moe.weights = MixtureOfExpertsModel.weights
    /\ DOMAIN given.predictions = ModelNames
    /\ \A m \in ModelNames : given.predictions[m] = given.predictions["poisson"]
    /\ IsOutcomePrediction(given.predictions["poisson"])

\* C18: four identical Outcome Predictions under the uniform initial weights
\* combine to the input's three probabilities and the common scoreline.
C18_IdenticalInputsReturned ==
    FourIdentical =>
        /\ ret.home_probability = given.predictions["poisson"].home_probability
        /\ ret.draw_probability = given.predictions["poisson"].draw_probability
        /\ ret.away_probability = given.predictions["poisson"].away_probability
        /\ ret.predicted_score = given.predictions["poisson"].predicted_score

\* four identical predictions of an uneven scoreline have been combined
C18_WitnessFourIdentical ==
    /\ FourIdentical
    /\ given.predictions["hmm"].predicted_score = <<"2", "-", "1">>
    /\ ret.ensemble_type = "mixture_of_experts"

\* the four-model names the input map holds
PresentModels == DOMAIN given.predictions \cap ModelNames

\* the weight-weighted sum of one probability over the present models
WeightedSum(field) ==
    SumOver([m \in PresentModels |->
                RMul(moe.weights[m], given.predictions[m][field])],
            PresentModels)

\* C19: with some of the four model names absent from the input map (and
\* Outcome Predictions under the others), predict returns probabilities that
\* sum to 1 and are the weight-weighted sums over the present models divided
\* by the present models' total weight.
C19_AbsentModelsSkipped ==
    (/\ ret # None
     /\ PresentModels # {}
     /\ PresentModels # ModelNames
     /\ DOMAIN given.predictions \subseteq ModelNames
     /\ \A m \in PresentModels : IsOutcomePrediction(given.predictions[m])) =>
        LET present_weight == SumOver([m \in PresentModels |-> moe.weights[m]],
                                      PresentModels)
        IN  /\ IsDistribution(ret)
            /\ RMul(ret.home_probability, present_weight) = WeightedSum("home_probability")
            /\ RMul(ret.draw_probability, present_weight) = WeightedSum("draw_probability")
            /\ RMul(ret.away_probability, present_weight) = WeightedSum("away_probability")

\* C7: after a fit_weights call whose performances have a positive total,
\* the weights sum to 1.
C7_WeightsSumToOne ==
    (calls > 0 /\ RGt(SumOver(moe.model_performances, DOMAIN moe.model_performances), Zero))
        => SumOver(moe.weights, DOMAIN moe.weights) = One

----------------------------------------------------------------------------
(* Database: the matches, team_stats and predictions tables *)

\* SQL NULL / Python None in an integer column or argument
Null == -1

Match(home_team_id, away_team_id, league_id, match_date, home_score, away_score) ==
    [home_team_id |-> home_team_id, away_team_id |-> away_team_id,
     league_id |-> league_id, match_date |-> match_date,
     home_score |-> home_score, away_score |-> away_score]

\* get_match: the row of the id, or None
GetMatch(d, match_id) == IF match_id \in DOMAIN d.matches THEN d.matches[match_id] ELSE None

\* get_team_stats(team_id) or {}
GetTeamStats(d, team_id) ==
    IF team_id \in DOMAIN d.team_stats THEN d.team_stats[team_id] ELSE <<>>

\* add_prediction: a plain INSERT, committed row by row
AddPrediction(d, match_id, model_type, pred) ==
    [d EXCEPT !.predictions = Append(@,
        [match_id |-> match_id, model_type |-> model_type,
         home_probability |-> Get(pred, "home_probability", Zero),
         draw_probability |-> Get(pred, "draw_probability", Zero),
         away_probability |-> Get(pred, "away_probability", Zero),
         predicted_score |-> Get(pred, "predicted_score", <<"1", "-", "1">>),
         confidence |-> Get(pred, "confidence", Zero),
         explanation |-> Get(pred, "explanation", "")])]

\* the ids of the matches that satisfy cond, ORDER BY match_date DESC
RECURSIVE ByDateDesc(_, _)
ByDateDesc(d, ids) ==
    IF ids = {} THEN <<>>
    ELSE LET m == CHOOSE x \in ids : \A y \in ids : d.matches[y].match_date <= d.matches[x].match_date
         IN  <<m>> \o ByDateDesc(d, ids \ {m})

----------------------------------------------------------------------------
(* PredictionPipeline *)

PredictionPipeline ==
    [poisson |-> PoissonModel, nb |-> NegativeBinomialModel, hawkes |-> HawkesModel,
     hmm |-> HMMFormModel, moe |-> MixtureOfExpertsModel]

\* _build_features with the answered sentiments taken whether or not
\* use_news is set
BuildFeaturesAlwaysNews(d, home_team_id, away_team_id, use_news, home_sentiment, away_sentiment) ==
    LET home_stats == GetTeamStats(d, home_team_id)
        away_stats == GetTeamStats(d, away_team_id)
        home_gf == Get(home_stats, "goals_for", 0)
        home_ga == Get(home_stats, "goals_against", 1)
        away_gf == Get(away_stats, "goals_for", 0)
        away_ga == Get(away_stats, "goals_against", 1)
    IN  [k \in {"home_form", "away_form", "home_attack_strength",
                "home_defense_strength", "away_attack_strength",
                "away_defense_strength", "home_advantage",
                "home_news_sentiment", "away_news_sentiment"} |->
            CASE k = "home_form" -> Get(home_stats, "form_rating", Half)
              [] k = "away_form" -> Get(away_stats, "form_rating", Half)
              [] k = "home_attack_strength" ->
                    IF home_gf > 0 THEN RAdd(One, R(home_gf, 30)) ELSE One
              [] k = "home_defense_strength" ->
                    IF home_ga > 0 THEN RSub(One, R(home_ga, 30)) ELSE One
              [] k = "away_attack_strength" ->
                    IF away_gf > 0 THEN RAdd(One, R(away_gf, 30)) ELSE One
              [] k = "away_defense_strength" ->
                    IF away_ga > 0 THEN RSub(One, R(away_ga, 30)) ELSE One
              [] k = "home_advantage" -> R(105, 100)
              [] k = "home_news_sentiment" -> home_sentiment
              [] k = "away_news_sentiment" -> away_sentiment]

\* _build_features; the two sentiments are what the news source answers
BuildFeatures(d, home_team_id, away_team_id, use_news, home_sentiment, away_sentiment) ==
    LET home_stats == GetTeamStats(d, home_team_id)
        away_stats == GetTeamStats(d, away_team_id)
        home_gf == Get(home_stats, "goals_for", 0)
        home_ga == Get(home_stats, "goals_against", 1)
        away_gf == Get(away_stats, "goals_for", 0)
        away_ga == Get(away_stats, "goals_against", 1)
    IN  [k \in {"home_form", "away_form", "home_attack_strength",
                "home_defense_strength", "away_attack_strength",
                "away_defense_strength", "home_advantage",
                "home_news_sentiment", "away_news_sentiment"} |->
            CASE k = "home_form" -> Get(home_stats, "form_rating", Half)
              [] k = "away_form" -> Get(away_stats, "form_rating", Half)
              [] k = "home_attack_strength" ->
                    IF home_gf > 0 THEN RAdd(One, R(home_gf, 30)) ELSE One
              [] k = "home_defense_strength" ->
                    IF home_ga > 0 THEN RSub(One, R(home_ga, 30)) ELSE One
              [] k = "away_attack_strength" ->
                    IF away_gf > 0 THEN RAdd(One, R(away_gf, 30)) ELSE One
              [] k = "away_defense_strength" ->
                    IF away_ga > 0 THEN RSub(One, R(away_ga, 30)) ELSE One
              [] k = "home_advantage" -> R(105, 100)
              [] k = "home_news_sentiment" -> IF use_news THEN home_sentiment ELSE Half
              [] k = "away_news_sentiment" -> IF use_news THEN away_sentiment ELSE Half]

\* _get_historical_goals: the home side's home scores and the away side's
\* away scores in the league, most recent first
HistoricalGoals(d, home_team_id, away_team_id, league_id) ==
    LET homes == ByDateDesc(d, {m \in DOMAIN d.matches :
                    /\ d.matches[m].home_team_id = home_team_id
                    /\ d.matches[m].league_id = league_id
                    /\ d.matches[m].home_score # Null})
        aways == ByDateDesc(d, {m \in DOMAIN d.matches :
                    /\ d.matches[m].away_team_id = away_team_id
                    /\ d.matches[m].league_id = league_id
                    /\ d.matches[m].away_score # Null})
        home_goals == [i \in 1..Len(homes) |-> RInt(d.matches[homes[i]].home_score)]
        away_goals == [i \in 1..Len(aways) |-> RInt(d.matches[aways[i]].away_score)]
    IN  [home_goals |-> IF Len(home_goals) = 0 THEN <<R(3, 2)>> ELSE home_goals,
         away_goals |-> IF Len(away_goals) = 0 THEN <<R(6, 5)>> ELSE away_goals]

\* _get_team_results: one value per match the team played in, from the
\* comparison of home_score with away_score
TeamResults(d, team_id, league_id) ==
    LET played == ByDateDesc(d, {m \in DOMAIN d.matches :
                    /\ (d.matches[m].home_team_id = team_id
                        \/ d.matches[m].away_team_id = team_id)
                    /\ d.matches[m].league_id = league_id
                    /\ d.matches[m].home_score # Null})
        results == [i \in 1..Len(played) |->
                      LET home_score == d.matches[played[i]].home_score
                          away_score == d.matches[played[i]].away_score
                      IN  IF home_score > away_score THEN One
                          ELSE IF home_score = away_score THEN Half
                          ELSE Zero]
    IN  IF results # <<>> THEN results ELSE <<Half>>

\* the text the explanation source answers
Explanation == "explanation"
\* llm_api.py line 52: the "content" of the answer is returned as it came; this
\* string stands for a content that is no text (a list of content parts)
ContentParts == "content parts"
Explanations == {Explanation, ContentParts}

\* database.py lines 234-244: sqlite3 binds None, numbers and text; the execute
\* raises for a parameter of any other type
Binds(pred) == Get(pred, "explanation", "") # ContentParts

ModelOrder == <<"poisson", "negative_binomial", "hawkes", "hmm", "ensemble">>

\* lines 94-104: one add_prediction per entry of predictions, in insertion order
RECURSIVE SavePredictions(_, _, _, _)
SavePredictions(d, match_id, predictions, i) ==
    IF i > Len(ModelOrder) THEN d
    ELSE IF ~Binds(predictions[ModelOrder[i]]) THEN d
    ELSE SavePredictions(AddPrediction(d, match_id, ModelOrder[i], predictions[ModelOrder[i]]),
                         match_id, predictions, i + 1)

\* predict_match, lines 57-82: the four fit calls on the pipeline's instances
FitModels(self, d, match_id, league_id, features) ==
    LET match_data == GetMatch(d, match_id)
        league == IF league_id # Null THEN league_id ELSE match_data.league_id
        goals == HistoricalGoals(d, match_data.home_team_id, match_data.away_team_id, league)
    IN  [self EXCEPT
            !.poisson = PoissonFit(@, goals.home_goals, goals.away_goals, features),
            !.nb = NBFit(@, goals.home_goals, goals.away_goals, features),
            !.hawkes = HawkesFit(@, goals.home_goals, goals.away_goals, features),
            !.hmm = HMMFit(@, TeamResults(d, match_data.home_team_id, league))]

\* predict_match, lines 70, 74 and 83: the predictions that draw no random number
DrawlessPredictions(fitted, features) ==
    [poisson |-> PoissonPredict(fitted.poisson, features),
     negative_binomial |-> NBPredict(fitted.nb, features),
     hmm |-> HMMPredict(fitted.hmm, features)]

\* predict_match, lines 69-83: the predictions dictionary handed to the ensemble
FourPredictions(fitted, drawless, home_goals_simulated, away_goals_simulated) ==
    [poisson |-> drawless.poisson,
     negative_binomial |-> drawless.negative_binomial,
     hawkes |-> HawkesPredict(fitted.hawkes, RInt(90), home_goals_simulated,
                              away_goals_simulated),
     hmm |-> drawless.hmm]

\* predict_match, lines 86-91: the ensemble prediction with its explanation
EnsemblePrediction(combined, explanation) ==
    [home_probability |-> combined.home_probability,
     draw_probability |-> combined.draw_probability,
     away_probability |-> combined.away_probability,
     predicted_score |-> combined.predicted_score,
     confidence |-> combined.confidence,
     weights |-> combined.weights,
     ensemble_type |-> combined.ensemble_type,
     explanation |-> explanation]

\* predict_match, lines 93-106: the five inserts and the value returned
SaveAndReturn(d, match_id, four, ensemble_pred) ==
    LET predictions == [poisson |-> four.poisson,
                        negative_binomial |-> four.negative_binomial,
                        hawkes |-> four.hawkes, hmm |-> four.hmm,
                        ensemble |-> ensemble_pred]
    IN  [db |-> SavePredictions(d, match_id, predictions, 1),
         \* lines 107-109: an insert that raises is caught; None is returned
         ret |-> IF \A name \in DOMAIN predictions : Binds(predictions[name])
                 THEN ensemble_pred ELSE None]

\* predict_match, lines 85-106: combine the four predictions, explain, save
CombineAndSave(fitted, d, match_id, four, explanation) ==
    SaveAndReturn(d, match_id, four,
                  EnsemblePrediction(MoEPredict(fitted.moe, four), explanation))

----------------------------------------------------------------------------
(* Backtester: the query of _backtest_single_model *)

\* SELECT ... FROM predictions p JOIN matches m ON p.match_id = m.id WHERE ...
RECURSIVE JoinedRows(_, _, _, _, _, _)
JoinedRows(d, i, model_type, league_id, start_date, end_date) ==
    IF i > Len(d.predictions) THEN <<>>
    ELSE LET p == d.predictions[i]
             joins == /\ p.match_id \in DOMAIN d.matches
                      /\ p.model_type = model_type
                      /\ d.matches[p.match_id].league_id = league_id
                      /\ start_date <= d.matches[p.match_id].match_date
                      /\ d.matches[p.match_id].match_date <= end_date
                      /\ d.matches[p.match_id].home_score # Null
                      /\ d.matches[p.match_id].away_score # Null
         IN  (IF joins
              THEN << <<p.home_probability, p.draw_probability, p.away_probability,
                        p.predicted_score, d.matches[p.match_id].home_score,
                        d.matches[p.match_id].away_score>> >>
              ELSE <<>>)
             \o JoinedRows(d, i + 1, model_type, league_id, start_date, end_date)

----------------------------------------------------------------------------
(* The store specification: one PredictionPipeline over one database       *)
(* answers predict_match requests; then the backtester runs its query.     *)
(* The query changes nothing in the store, so requests are taken while no  *)
(* query has run.                                                          *)

MaxRequests == 2

Teams == {1, 2}
TeamStats == [goals_for |-> 6, goals_against |-> 6, form_rating |-> R(7, 10)]

\* the databases the pipeline starts with: a played match, a match that may
\* have been played, a scheduled match; stats for none, one or both teams
Databases ==
    {[matches |-> <<Match(1, 2, 1, 1, s[1], s[2]),
                    Match(2, 1, 1, 2, t[1], t[2]),
                    Match(1, 2, 1, 3, Null, Null)>>,
      team_stats |-> [x \in with |-> TeamStats],
      predictions |-> <<>>] :
        s \in {<<3, 0>>, <<0, 0>>},
        t \in {<<Null, Null>>, <<3, 0>>},
        with \in SUBSET Teams}

MatchIds == {1, 3, 9}
LeagueIds == {Null, 2}
\* what analyze_sentiment answers for the home and the away side
Sentiments == {<<Half, Half>>, <<One, Zero>>}

InitStore ==
    /\ db \in Databases
    /\ pipe = PredictionPipeline
    /\ calls = 0
    /\ ret = None
    /\ given = None
    /\ rows = IdleRows
    /\ inst = None
    /\ fresh = None
    /\ sim = None
    /\ moe = IdleMoE

\* predict_match(match_id, league_id, use_news)
PredictMatchCall ==
    /\ calls < MaxRequests
    /\ rows = IdleRows
    /\ \E match_id \in MatchIds, league_id \in LeagueIds, use_news \in BOOLEAN :
        /\ IF GetMatch(db, match_id) = None
           THEN /\ ret' = None
                /\ given' = [match_id |-> match_id, league_id |-> league_id,
                             use_news |-> use_news]
                /\ UNCHANGED <<db, pipe>>
           ELSE \E sentiment \in (IF use_news THEN Sentiments ELSE {<<Half, Half>>}) :
                \E features \in {BuildFeatures(db, db.matches[match_id].home_team_id,
                                     db.matches[match_id].away_team_id, use_news,
                                     sentiment[1], sentiment[2])} :
                \E fitted \in {FitModels(pipe, db, match_id, league_id, features)} :
                \E drawless \in {DrawlessPredictions(fitted, features)} :
                \E hs \in SimulateGoals(fitted.hawkes.lambda0_home, RInt(90), simulations),
                   as \in SimulateGoals(fitted.hawkes.lambda0_away, RInt(90), simulations) :
                \E four \in {FourPredictions(fitted, drawless, hs, as)} :
                \E explanation \in Explanations :
                \E out \in {CombineAndSave(fitted, db, match_id, four, explanation)} :
                    /\ given' = [match_id |-> match_id, league_id |-> league_id,
                                 use_news |-> use_news, features |-> features,
                                 home_results |->
                                     TeamResults(db, db.matches[match_id].home_team_id,
                                         IF league_id # Null THEN league_id
                                         ELSE db.matches[match_id].league_id)]
                    /\ pipe' = fitted
                    /\ db' = out.db
                    /\ ret' = out.ret
    /\ calls' = calls + 1
    /\ UNCHANGED <<inst, fresh, sim, moe, rows>>

Windows == {<<1, 3>>, <<2, 3>>}

\* lines 40-55 of _backtest_single_model: the rows of one model in a window
BacktestQueryCall ==
    /\ rows = IdleRows
    /\ db.predictions # <<>>
    /\ \E model_type \in ModelNames \cup {"ensemble"}, w \in Windows :
        /\ rows' = JoinedRows(db, 1, model_type, 1, w[1], w[2])
        /\ given' = [model_type |-> model_type, league_id |-> 1,
                     start_date |-> w[1], end_date |-> w[2]]
    /\ rows' # IdleRows
    /\ ret' = None
    /\ UNCHANGED <<inst, fresh, calls, sim, moe, db, pipe>>

NextStore == PredictMatchCall \/ BacktestQueryCall

SpecStore == InitStore /\ [][NextStore]_vars

----------------------------------------------------------------------------
(* Properties of the store *)

\* the matches the given window of the given league qualifies
Qualifying ==
    {m \in DOMAIN db.matches :
        /\ db.matches[m].league_id = given.league_id
        /\ given.start_date <= db.matches[m].match_date
        /\ db.matches[m].match_date <= given.end_date
        /\ db.matches[m].home_score # Null
        /\ db.matches[m].away_score # Null}

\* C4: the store holds at most one prediction per (match id, model name),
\* and the rows a backtest of one model reads are at most one per
\* qualifying match.
C4_OnePredictionPerMatchAndModel ==
    /\ \A i, j \in DOMAIN db.predictions :
          (db.predictions[i].match_id = db.predictions[j].match_id
           /\ db.predictions[i].model_type = db.predictions[j].model_type) => i = j
    /\ rows # IdleRows => Len(rows) <= Cardinality(Qualifying)

\* the latest predict_match built a feature vector for its match
Built == "features" \in DOMAIN given

\* the features of one side are the neutral ones: form 0.5, strengths 1.0
Neutral(side) ==
    /\ given.features[side \o "_form"] = Half
    /\ given.features[side \o "_attack_strength"] = One
    /\ given.features[side \o "_defense_strength"] = One

\* C13: for a team without stored stats the feature builder yields form
\* 0.5, attack strength 1.0 and defense strength 1.0, and sentiment 0.5
\* without news; every feature is defined.
C13_NeutralFeaturesWithoutStats ==
    Built =>
        LET match_data == db.matches[given.match_id]
        IN  /\ match_data.home_team_id \notin DOMAIN db.team_stats => Neutral("home")
            /\ match_data.away_team_id \notin DOMAIN db.team_stats => Neutral("away")
            /\ ~given.use_news =>
                  /\ given.features["home_news_sentiment"] = Half
                  /\ given.features["away_news_sentiment"] = Half
            /\ \A k \in DOMAIN given.features : IsNum(given.features[k])

\* the result of match m for the given team: 1.0 won, 0.5 drawn, 0.0 lost
ResultFor(m, team_id) ==
    LET own == IF m.home_team_id = team_id THEN m.home_score ELSE m.away_score
        other == IF m.home_team_id = team_id THEN m.away_score ELSE m.home_score
    IN  IF own > other THEN One ELSE IF own = other THEN Half ELSE Zero

\* C15: each value of the Result History handed to the form model is the
\* result of a match from the team's point of view, whether the team played
\* at home or away.
C15_ResultsFromTeamsPointOfView ==
    Built =>
        LET team_id == db.matches[given.match_id].home_team_id
            league == IF given.league_id # Null THEN given.league_id
                      ELSE db.matches[given.match_id].league_id
            played == ByDateDesc(db, {m \in DOMAIN db.matches :
                          /\ team_id \in {db.matches[m].home_team_id,
                                          db.matches[m].away_team_id}
                          /\ db.matches[m].league_id = league
                          /\ db.matches[m].home_score # Null})
        IN  played # <<>> =>
                given.home_results =
                    [i \in 1..Len(played) |-> ResultFor(db.matches[played[i]], team_id)]

----------------------------------------------------------------------------
(* Backtester: the metrics of _backtest_single_model.  A row is            *)
(* <<home_probability, draw_probability, away_probability,                 *)
(*   predicted_score, home_score, away_score>>.                            *)

\* the actual result of a row: 1 home, 2 draw, 3 away
Actual(row) ==
    IF row[5] > row[6] THEN 1 ELSE IF row[5] = row[6] THEN 2 ELSE 3

\* the last key, in insertion order, that holds the largest value
PredictedLastMaximum(row) ==
    CHOOSE k \in 1..3 : /\ \A j \in 1..3 : RLe(row[j], row[k])
                        /\ \A j \in (k + 1)..3 : RLt(row[j], row[k])

\* max(probs, key=probs.get) over the dict {'home', 'draw', 'away'}: the
\* first key, in insertion order, that holds the largest value
Predicted(row) ==
    CHOOSE k \in 1..3 : /\ \A j \in 1..3 : RLe(row[j], row[k])
                        /\ \A j \in 1..(k - 1) : RLt(row[j], row[k])

CalculateAccuracy(fetched) ==
    IF Len(fetched) = 0 THEN Zero
    ELSE R(Cardinality({i \in 1..Len(fetched) : Actual(fetched[i]) = Predicted(fetched[i])}),
           Len(fetched))

\* max(min(actual_prob, 1.0 - epsilon), epsilon) with epsilon = 1e-15, which
\* lies strictly between 0 and every positive probability of the rows drawn
Clamp(actual_prob) ==
    IF RLe(actual_prob, Zero) THEN "epsilon"
    ELSE IF RLe(One, actual_prob) THEN "1 - epsilon"
    ELSE actual_prob

\* total_loss / len(rows): the numbers whose -np.log is averaged
CalculateLogLoss(fetched) ==
    IF Len(fetched) = 0 THEN Zero
    ELSE [mean_of_minus_log |->
             [i \in 1..Len(fetched) |-> Clamp(fetched[i][Actual(fetched[i])])]]

\* (predicted - actual) ** 2, actual the one-hot vector of the result
SquaredDifferences(row) ==
    [k \in 1..3 |->
        LET actual == IF Actual(row) = k THEN One ELSE Zero
        IN  RMul(RSub(row[k], actual), RSub(row[k], actual))]

CalculateBrierScore(fetched) ==
    IF Len(fetched) = 0 THEN Zero
    ELSE RDiv(RSeqSum([i \in 1..Len(fetched) |-> Mean(SquaredDifferences(fetched[i]))]),
              RInt(Len(fetched)))

\* _backtest_single_model from line 57 on
BacktestSingleModel(fetched, model_type) ==
    IF fetched = <<>>
    THEN [accuracy |-> Zero, log_loss |-> Zero, brier_score |-> Zero, count |-> 0]
    ELSE [accuracy |-> CalculateAccuracy(fetched),
          log_loss |-> CalculateLogLoss(fetched),
          brier_score |-> CalculateBrierScore(fetched),
          count |-> Len(fetched),
          model |-> model_type]

----------------------------------------------------------------------------
(* The backtest specification: the query has answered some rows; the       *)
(* metrics are computed from them.                                         *)

MaxRows == 2

\* predicted triples: certain home, certain away, a clear favourite, a tie
\* of the two largest values
Triples ==
    {<<One, Zero, Zero>>, <<Zero, Zero, One>>,
     <<R(1, 2), R(3, 10), R(1, 5)>>, <<R(1, 5), R(2, 5), R(2, 5)>>,
     <<R(2, 5), R(2, 5), R(1, 5)>>, <<R(1, 3), R(1, 3), R(1, 3)>>}

FinalScores == {<<3, 0>>, <<0, 0>>, <<0, 3>>}

RowValues ==
    {<<t[1], t[2], t[3], <<"1", "-", "1">>, f[1], f[2]>> : t \in Triples, f \in FinalScores}

FetchedRows == UNION {[1..n -> RowValues] : n \in 0..MaxRows}

\* the longer inputs: ExampleSize home wins, predicted draw in row i, away in
\* row j and home in the other rows (all by a clear favourite or all by a
\* tie of home and draw)
ExampleSize == 10

ExampleRows ==
    {[k \in 1..ExampleSize |->
        LET t == IF k = i THEN <<R(1, 5), R(2, 5), R(2, 5)>>
                 ELSE IF k = j THEN <<Zero, Zero, One>>
                 ELSE home
        IN  <<t[1], t[2], t[3], <<"1", "-", "1">>, 3, 0>>] :
        i \in 1..ExampleSize, j \in 1..ExampleSize,
        home \in {<<R(1, 2), R(3, 10), R(1, 5)>>, <<R(2, 5), R(2, 5), R(1, 5)>>}}

InitBacktest ==
    /\ rows \in FetchedRows \cup ExampleRows
    /\ ret = None
    /\ given = None
    /\ calls = 0
    /\ inst = None
    /\ fresh = None
    /\ sim = None
    /\ moe = IdleMoE
    /\ db = IdleDb
    /\ pipe = IdlePipe

BacktestSingleModelCall ==
    /\ ret = None
    /\ \E model_type \in {"poisson", "ensemble"} :
        /\ ret' = BacktestSingleModel(rows, model_type)
        /\ given' = [model_type |-> model_type]
    /\ UNCHANGED <<inst, fresh, calls, sim, moe, db, pipe, rows>>

NextBacktest == BacktestSingleModelCall

SpecBacktest == InitBacktest /\ [][NextBacktest]_vars

----------------------------------------------------------------------------
(* Properties of the backtester *)

\* the squared Euclidean distance between the predicted triple of a row and
\* the one-hot vector of its actual result
SquaredDistance(row) ==
    LET d(k) == RSub(row[k], IF Actual(row) = k THEN One ELSE Zero)
    IN  RAdd(RAdd(RMul(d(1), d(1)), RMul(d(2), d(2))), RMul(d(3), d(3)))

\* C10: brier_score is the mean over the rows of the squared Euclidean
\* distance between the one-hot actual outcome and the predicted triple; a
\* single row that predicts (1, 0, 0) for an away win scores 2.
C10_BrierIsMeanSquaredDistance ==
    (ret # None /\ rows # <<>>) =>
        RMul(RInt(Len(rows)), ret.brier_score) =
            RSeqSum([i \in 1..Len(rows) |-> SquaredDistance(rows[i])])

\* the actual bucket of a row, by its final scores
ActualBucket(row) ==
    IF row[5] > row[6] THEN "home" ELSE IF row[5] = row[6] THEN "draw" ELSE "away"

\* the bucket of the largest probability of a row, home before draw before
\* away among equal largest values
ArgMaxBucket(row) ==
    IF RLe(row[2], row[1]) /\ RLe(row[3], row[1]) THEN "home"
    ELSE IF RLe(row[3], row[2]) THEN "draw"
    ELSE "away"

\* the rows are ten home wins, predicted home in eight of them
EightOfTen ==
    /\ Len(rows) = 10
    /\ \A i \in 1..Len(rows) : ActualBucket(rows[i]) = "home"
    /\ Cardinality({i \in 1..Len(rows) : ArgMaxBucket(rows[i]) = "home"}) = 8

\* C20: accuracy is the fraction of the rows whose largest probability, a
\* tie resolved in the order home, draw, away, is that of the actual bucket;
\* ten home wins predicted home in eight rows give 0.8.
C20_AccuracyIsArgMaxHitRate ==
    (ret # None /\ rows # <<>>) =>
        /\ RMul(RInt(Len(rows)), ret.accuracy) =
              RInt(Cardinality({i \in 1..Len(rows) :
                                  ArgMaxBucket(rows[i]) = ActualBucket(rows[i])}))
        /\ EightOfTen => ret.accuracy = R(8, 10)

\* the accuracy of the ten-row example, its home predictions ties of home
\* and draw, has been computed
C20_WitnessEightOfTenWithTies ==
    /\ ret # None
    /\ EightOfTen
    /\ \E i \in 1..Len(rows) : rows[i][1] = rows[i][2]
    /\ \E i \in 1..Len(rows) : rows[i][2] = rows[i][3]
    /\ ret.count = 10

----------------------------------------------------------------------------
(* Backtester.get_calibration_data.  A row is                              *)
(* <<home_probability, home_score, away_score>>.                           *)

\* edges of bins centred on the multiples of 1 / bins
CentredBinEdges(bins) == [i \in 1..(bins + 1) |-> R(2 * i - 3, 2 * bins)]

\* np.linspace(0, 1, bins + 1)
BinEdges(bins) == [i \in 1..(bins + 1) |-> R(i - 1, bins)]

\* line 188-189: the rows with bin_edges[i] <= row[0] <= bin_edges[i + 1]
BinRows(fetched, bin_edges, i) ==
    SelectSeq(fetched, LAMBDA row : RLe(bin_edges[i], row[1]) /\ RLe(row[1], bin_edges[i + 1]))

\* lines 187-195: one (accuracy, confidence) point per non-empty bin, from bin i on
RECURSIVE CalibrationPoints(_, _, _)
CalibrationPoints(fetched, bin_edges, i) ==
    IF i > Len(bin_edges) - 1 THEN <<>>
    ELSE LET bin_rows == BinRows(fetched, bin_edges, i)
             wins == SelectSeq(bin_rows, LAMBDA row : row[2] > row[3])
         IN  (IF bin_rows # <<>>
              THEN <<[accuracy |-> R(Len(wins), Len(bin_rows)),
                      confidence |-> Mean([k \in 1..Len(bin_rows) |-> bin_rows[k][1]])]>>
              ELSE <<>>)
             \o CalibrationPoints(fetched, bin_edges, i + 1)

GetCalibrationData(fetched, bins) ==
    LET points == CalibrationPoints(fetched, BinEdges(bins), 1)
    IN  [confidence |-> [k \in 1..Len(points) |-> points[k].confidence],
         accuracy |-> [k \in 1..Len(points) |-> points[k].accuracy],
         bin_edges |-> BinEdges(bins)]

----------------------------------------------------------------------------
(* The calibration specification: the query has answered some rows; the    *)
(* calibration curve is computed from them for some number of bins.        *)

MaxRecords == 2

\* numbers of bins whose edges around the probabilities drawn are the
\* decimal values np.linspace yields; 10 is the default
BinCounts == {1, 2, 4, 10}

CalibrationProbabilities == {Zero, R(1, 4), R(9, 20), Half, One}

HomeWin == <<1, 0>>
NoHomeWin == <<0, 1>>

CalibrationRows ==
    UNION {[1..n -> {<<p, f[1], f[2]>> : p \in CalibrationProbabilities,
                                        f \in {HomeWin, NoHomeWin}}] :
           n \in 0..MaxRecords}

\* 10 home-win probabilities spread uniformly over [0.45, 0.55]: from end to
\* end in steps of 1/90, and 0.46, 0.47, ..., 0.55
UniformGrids ==
    {[k \in 1..10 |-> RAdd(R(9, 20), R(k - 1, 90))],
     [k \in 1..10 |-> R(45 + k, 100)]}

\* the grids with 5 of the 10 predictions being actual home wins
UniformRows ==
    {[k \in 1..10 |-> IF k \in won THEN <<g[k], 1, 0>> ELSE <<g[k], 0, 1>>] :
        g \in UniformGrids, won \in {w \in SUBSET (1..10) : Cardinality(w) = 5}}

InitCalibration ==
    /\ rows \in CalibrationRows \cup UniformRows
    /\ ret = None
    /\ given = None
    /\ calls = 0
    /\ inst = None
    /\ fresh = None
    /\ sim = None
    /\ moe = IdleMoE
    /\ db = IdleDb
    /\ pipe = IdlePipe

GetCalibrationDataCall ==
    /\ ret = None
    /\ \E bins \in BinCounts :
        /\ ret' = GetCalibrationData(rows, bins)
        /\ given' = [bins |-> bins]
    /\ UNCHANGED <<inst, fresh, calls, sim, moe, db, pipe, rows>>

NextCalibration == GetCalibrationDataCall

SpecCalibration == InitCalibration /\ [][NextCalibration]_vars

----------------------------------------------------------------------------
(* Properties of the calibration curve *)

\* C11: every record is counted in exactly one bin, so the sizes of the bins
\* add up to the number of records.
C11_BinsPartitionRecords ==
    ret # None =>
        /\ \A r \in 1..Len(rows) :
              Cardinality({i \in 1..given.bins :
                  BinRows(<<rows[r]>>, ret.bin_edges, i) # <<>>}) = 1
        /\ SeqSum([i \in 1..given.bins |-> Len(BinRows(rows, ret.bin_edges, i))])
              = Len(rows)

\* the latest call was the default one (10 bins) on 10 predictions spread
\* uniformly over [0.45, 0.55], 5 of them actual home wins
UniformCase == ret # None /\ given.bins = 10 /\ rows \in UniformRows

\* the share of actual home wins among the rows that satisfy in
HomeWinRate(in(_)) ==
    R(Cardinality({k \in 1..Len(rows) : in(rows[k]) /\ rows[k][2] > rows[k][3]}),
      Cardinality({k \in 1..Len(rows) : in(rows[k])}))

----------------------------------------------------------------------------
(* The fit specification: a freshly constructed model is given one fit     *)
(* call, whose arguments are drawn at the start; fresh keeps the model as  *)
(* it was constructed.                                                     *)

MaxFitHist == 3
FitGoalValues == {0, 1, 4}
FitHistories == SeqsUpTo({RInt(g) : g \in FitGoalValues}, MaxFitHist)

\* feature vectors with a strength that is no number, on the home side's
\* product and on the away side's
BadStrengthFeatures ==
    {FV(Half, Half, NotANumber, One, One, One),
     FV(Half, Half, R(6, 5), One, NotANumber, One)}

InitFit ==
    /\ inst \in {NegativeBinomialModel, PoissonModel}
    /\ fresh = inst
    /\ given \in [home_goals : FitHistories, away_goals : FitHistories,
                  features : FitFeatures \cup BadStrengthFeatures]
    /\ calls = 0
    /\ ret = None
    /\ sim = None
    /\ moe = IdleMoE
    /\ db = IdleDb
    /\ pipe = IdlePipe
    /\ rows = IdleRows

NBFitGivenCall ==
    /\ inst.kind = "negative_binomial"
    /\ calls = 0
    /\ inst' = NBFit(inst, given.home_goals, given.away_goals, given.features)
    /\ calls' = calls + 1
    /\ UNCHANGED <<fresh, ret, given, sim, moe, db, pipe, rows>>

PoissonFitGivenCall ==
    /\ inst.kind = "poisson"
    /\ calls = 0
    /\ inst' = PoissonFit(inst, given.home_goals, given.away_goals, given.features)
    /\ calls' = calls + 1
    /\ UNCHANGED <<fresh, ret, given, sim, moe, db, pipe, rows>>

\* predict with the feature vector fit was given, as predict_match calls it
PoissonPredictGivenCall ==
    /\ inst.kind = "poisson"
    /\ calls = 1
    /\ ret = None
    /\ ret' = PoissonPredict(inst, given.features)
    /\ UNCHANGED <<inst, fresh, calls, given, sim, moe, db, pipe, rows>>

NextFit == NBFitGivenCall \/ PoissonFitGivenCall \/ PoissonPredictGivenCall

SpecFit == InitFit /\ [][NextFit]_vars

----------------------------------------------------------------------------
(* Properties of fit *)

\* every strength of the feature vector is a number
NumericStrengths(features) ==
    \A k \in {"home_attack_strength", "away_defense_strength",
               "away_attack_strength", "home_defense_strength"} :
        IsNum(Get(features, k, One))

\* the strength factors fit multiplies a side's mean with
Scale(features, attack, defense) ==
    IF Truthy(features)
    THEN RMul(Get(features, attack, One), Get(features, defense, One))
    ELSE One

\* mean and alpha are the moment estimates of a non-empty history
MomentEstimates(history, mu, alpha, scale) ==
    history # <<>> =>
        LET mean == Mean(history)
            variance == Var(history)
        IN  /\ mu = RMul(mean, scale)
            /\ alpha = IF RGt(variance, mean)
                       THEN RMax(RDiv(RMul(mean, mean), RSub(variance, mean)), R(1, 10))
                       ELSE One

\* C14: after NegativeBinomialModel.fit, for every non-empty history of a
\* side, the side's mean is the sample mean (times the strength factors) and
\* its alpha is max(mean^2 / (variance - mean), 0.1) when variance > mean
\* and 1.0 otherwise; a one-match history gives that match's goals and 1.0.
C14_NBFitMomentEstimates ==
    (inst.kind = "negative_binomial" /\ calls > 0 /\ NumericStrengths(given.features)) =>
        /\ MomentEstimates(given.home_goals, inst.home_mu, inst.home_alpha,
               Scale(given.features, "home_attack_strength", "away_defense_strength"))
        /\ MomentEstimates(given.away_goals, inst.away_mu, inst.away_alpha,
               Scale(given.features, "away_attack_strength", "home_defense_strength"))

----------------------------------------------------------------------------
(* Backtester.backtest_models over a store that holds predictions *)

\* one entry per requested name without any row in the window is left out
BacktestModelsWithRowsOnly(d, league_id, start_date, end_date, models) ==
    LET names == IF "names" \in DOMAIN models THEN models.names ELSE ModelOrder
    IN  [m \in {names[i] : i \in {k \in 1..Len(names) :
                    JoinedRows(d, 1, names[k], league_id, start_date, end_date) # <<>>}} |->
            BacktestSingleModel(JoinedRows(d, 1, m, league_id, start_date, end_date), m)]

\* backtest_models: a list of names is [names |-> the list]; models = None
\* stands for the five default names
BacktestModels(d, league_id, start_date, end_date, models) ==
    LET names == IF "names" \in DOMAIN models THEN models.names ELSE ModelOrder
    IN  [m \in {names[i] : i \in 1..Len(names)} |->
            BacktestSingleModel(JoinedRows(d, 1, m, league_id, start_date, end_date), m)]

\* the stored prediction of one model for one match
StoredPrediction ==
    [home_probability |-> R(1, 2), draw_probability |-> R(3, 10),
     away_probability |-> R(1, 5), predicted_score |-> <<"2", "-", "1">>]

\* add_prediction of the stored prediction for match 1 under each name of a
\* sequence of names
RECURSIVE StoreFor(_, _)
StoreFor(d, names) ==
    IF names = <<>> THEN d
    ELSE StoreFor(AddPrediction(d, 1, Head(names), StoredPrediction), Tail(names))

\* the stores the backtester finds: match 1 predicted by some of the models
StoredDatabases ==
    {StoreFor(d, SelectSeq(ModelOrder, LAMBDA m : m \in S)) :
        d \in Databases, S \in SUBSET {ModelOrder[i] : i \in 1..Len(ModelOrder)}}

\* the models argument: the default, one name, a name no model has, no name
ModelLists ==
    {None, [names |-> <<"poisson">>], [names |-> <<"ensemble", "elo">>], [names |-> <<>>]}

InitBacktestModels ==
    /\ db \in StoredDatabases
    /\ ret = None
    /\ given = None
    /\ calls = 0
    /\ inst = None
    /\ fresh = None
    /\ sim = None
    /\ moe = IdleMoE
    /\ pipe = IdlePipe
    /\ rows = IdleRows

BacktestModelsCall ==
    /\ ret = None
    /\ \E models \in ModelLists, w \in Windows :
        /\ ret' = [results |-> BacktestModels(db, 1, w[1], w[2], models)]
        /\ given' = [models |-> models, league_id |-> 1,
                     start_date |-> w[1], end_date |-> w[2]]
    /\ UNCHANGED <<inst, fresh, calls, sim, moe, db, pipe, rows>>

NextBacktestModels == BacktestModelsCall

SpecBacktestModels == InitBacktestModels /\ [][NextBacktestModels]_vars

\* the names a backtest_models call was asked for
Requested ==
    IF given.models = None
    THEN {"poisson", "negative_binomial", "hawkes", "hmm", "ensemble"}
    ELSE {given.models.names[i] : i \in 1..Len(given.models.names)}

\* the model has a stored prediction for a match that qualifies in the window
HasQualifyingRows(model_type) ==
    \E i \in DOMAIN db.predictions :
        /\ db.predictions[i].model_type = model_type
        /\ db.predictions[i].match_id \in Qualifying

\* C21: backtest_models returns one entry per requested name (the five
\* default names when none is given), and the entry of a model without
\* qualifying rows in the window is accuracy 0.0, log_loss 0.0, brier_score
\* 0.0, count 0.
C21_EmptyWindowGivesZeroMetrics ==
    ret # None =>
        /\ DOMAIN ret.results = Requested
        /\ \A m \in Requested :
              ~HasQualifyingRows(m) =>
                  ret.results[m] = [accuracy |-> Zero, log_loss |-> Zero,
                                    brier_score |-> Zero, count |-> 0]

\* the default five names were backtested over a store that has rows for
\* poisson in the window and none for hawkes
C21_WitnessSomeWithoutRows ==
    /\ ret # None
    /\ given.models = None
    /\ HasQualifyingRows("poisson")
    /\ ~HasQualifyingRows("hawkes")
    /\ ret.results["poisson"].count = 1
    /\ ret.results["hawkes"].count = 0

----------------------------------------------------------------------------
(* PredictionPipeline._build_features with its news client.  An article is *)
(* [positive |-> p, negative |-> n]: the numbers of positive and negative  *)
(* keywords in its title and description.  The client keeps, for the       *)
(* check, the team names get_team_news was asked for.                      *)

NewsAPIClient == [kind |-> "news", requested |-> <<>>]

\* get_team_news: the client after the call
GetTeamNews(client, team_name) ==
    [client EXCEPT !.requested = Append(@, team_name)]

\* analyze_sentiment
AnalyzeSentiment(articles) ==
    IF articles = <<>> THEN Half
    ELSE LET positive_count == SeqSum([i \in 1..Len(articles) |-> articles[i].positive])
             negative_count == SeqSum([i \in 1..Len(articles) |-> articles[i].negative])
             total == positive_count + negative_count
         IN  IF total = 0 THEN Half
             ELSE RMin(RMax(R(positive_count, total), Zero), One)

MaxBuilds == 2

\* what get_team_news answers: nothing, the two mock articles (one
\* "victory", one "defeated"), good news, bad news
NewsAnswers ==
    {<<>>,
     <<[positive |-> 1, negative |-> 1], [positive |-> 0, negative |-> 0]>>,
     <<[positive |-> 2, negative |-> 0]>>,
     <<[positive |-> 0, negative |-> 1]>>}

\* the stores a feature build finds: without predictions, or with the five
\* predictions of match 1
\* team_stats rows of teams that conceded thirty goals or more
LeakyStats == {[goals_for |-> 6, goals_against |-> ga, form_rating |-> R(3, 10)] :
                  ga \in {30, 45}}
LeakyDatabases ==
    {[d EXCEPT !.team_stats = [x \in DOMAIN @ |-> stats]] :
        d \in {x \in Databases : x.team_stats # <<>>}, stats \in LeakyStats}

FeatureDatabases ==
    Databases \cup {StoreFor(d, ModelOrder) : d \in Databases} \cup LeakyDatabases

InitFeatures ==
    /\ db \in FeatureDatabases
    /\ inst = NewsAPIClient
    /\ pipe = PredictionPipeline
    /\ calls = 0
    /\ ret = None
    /\ given = None
    /\ fresh = None
    /\ sim = None
    /\ moe = IdleMoE
    /\ rows = IdleRows

\* _build_features(home_team_id, away_team_id, home_team_name,
\* away_team_name, use_news); a team's name is modelled by its id
BuildFeaturesCall ==
    /\ calls < MaxBuilds
    /\ \E home_team_id \in Teams, away_team_id \in Teams, use_news \in BOOLEAN,
          home_news \in NewsAnswers, away_news \in NewsAnswers :
        /\ home_team_id # away_team_id
        /\ inst' = IF use_news
                   THEN GetTeamNews(GetTeamNews(inst, home_team_id), away_team_id)
                   ELSE inst
        /\ ret' = BuildFeatures(db, home_team_id, away_team_id, use_news,
                                AnalyzeSentiment(home_news), AnalyzeSentiment(away_news))
        /\ given' = [home_team_id |-> home_team_id, away_team_id |-> away_team_id,
                     use_news |-> use_news]
    /\ calls' = calls + 1
    /\ UNCHANGED <<fresh, sim, moe, db, pipe, rows>>

NextFeatures == BuildFeaturesCall

SpecFeatures == InitFeatures /\ [][NextFeatures]_vars

\* C22: a feature build with use_news false sets both sentiment fields to
\* 0.5 and asks the news client nothing; with use_news true it asks the
\* client once for the home team and once for the away team; either way it
\* leaves the predictions table and every other table as they were.
C22_SentimentLookupOnlyWhenEnabled ==
    [][/\ db' = db
       /\ ~given'.use_news =>
             /\ inst'.requested = inst.requested
             /\ ret'["home_news_sentiment"] = Half
             /\ ret'["away_news_sentiment"] = Half
       /\ given'.use_news =>
             inst'.requested =
                 inst.requested \o <<given'.home_team_id, given'.away_team_id>>]_vars

\* a build with the lookup enabled followed a build with it disabled, over a
\* store that holds predictions, and took a sentiment from the news
C22_WitnessBothKinds ==
    /\ calls = 2
    /\ given.use_news
    /\ Len(inst.requested) = 2
    /\ db.predictions # <<>>
    /\ ret["home_news_sentiment"] = One

----------------------------------------------------------------------------
(* Further properties of the four models *)

\* the latest Poisson or Negative-Binomial prediction was computed from the
\* same rate on both sides (and, for NB, the same alpha), forms applied
SameRates ==
    /\ inst.kind \in {"poisson", "negative_binomial"}
    /\ Computed
    /\ inst.kind = "poisson" => ret.home_lambda = ret.away_lambda
    /\ inst.kind = "negative_binomial" =>
          ret.home_mu = ret.away_mu /\ ret.home_alpha = ret.away_alpha

\* C23: with the same scaled rate (and alpha) on both sides, the Poisson and
\* Negative-Binomial models return home_probability = away_probability.
C23_EqualRatesEqualProbabilities ==
    SameRates => ret.home_probability = ret.away_probability

\* a fitted Negative-Binomial model predicted from equal rates, with some
\* mass on the draw
C23_WitnessEqualRates ==
    /\ SameRates
    /\ inst.kind = "negative_binomial"
    /\ calls > 0
    /\ RGt(ret.draw_probability, Zero)
    /\ RGt(ret.home_probability, Zero)

\* the form score predict reads for one side: 0.5 when the feature vector is
\* empty or holds no such form
FormGiven(key) ==
    IF given.features = NoFeatures THEN Half
    ELSE IF key \in DOMAIN given.features THEN given.features[key]
    ELSE Half

\* the state the claim assigns to a form score
StateOfForm(form) ==
    CASE RGt(form, R(65, 100)) -> 0
      [] RGt(form, R(35, 100)) /\ RLe(form, R(65, 100)) -> 1
      [] RLe(form, R(35, 100)) -> 2

\* C24: the Form model maps form > 0.65 to state 0, 0.35 < form <= 0.65 to
\* state 1 and form <= 0.35 to state 2; 0.7 maps to 0, 0.5 to 1, 0.2 to 2 and
\* a missing form to 1.
C24_FormThresholds ==
    (inst.kind = "hmm" /\ ret # None
        /\ IsNum(FormGiven("home_form")) /\ IsNum(FormGiven("away_form"))) =>
        /\ ret.home_state = StateOfForm(FormGiven("home_form"))
        /\ ret.away_state = StateOfForm(FormGiven("away_form"))
        /\ FormGiven("home_form") = R(7, 10) => ret.home_state = 0
        /\ FormGiven("home_form") = R(5, 10) => ret.home_state = 1
        /\ FormGiven("home_form") = R(2, 10) => ret.home_state = 2
        /\ "home_form" \notin DOMAIN given.features => ret.home_state = 1

\* a prediction from a home form of exactly 0.65 and an away form of exactly
\* 0.35
C24_WitnessOnThresholds ==
    /\ inst.kind = "hmm"
    /\ ret # None
    /\ given.features # NoFeatures
    /\ FormGiven("home_form") = R(65, 100)
    /\ FormGiven("away_form") = R(35, 100)
    /\ ret.home_state = 1
    /\ ret.away_state = 2

\* the rate fit takes from a goal history before scaling
BaseRate(history, default) ==
    IF history = <<>> THEN default ELSE RMax(Mean(history), R(1, 10))

\* C25: PoissonModel.fit sets each rate to max(mean of the history, 0.1), or
\* to 1.5 (home) / 1.2 (away) for an empty history, times attack strength
\* times the opponent's defense strength; predict returns each stored rate
\* times (0.5 + form) and leaves the stored rates as fit set them.
C25_PoissonFitScalesRates ==
    (inst.kind = "poisson" /\ calls > 0 /\ NumericStrengths(given.features)) =>
        /\ inst.home_lambda =
              RMul(BaseRate(given.home_goals, R(15, 10)),
                   Scale(given.features, "home_attack_strength", "away_defense_strength"))
        /\ inst.away_lambda =
              RMul(BaseRate(given.away_goals, R(12, 10)),
                   Scale(given.features, "away_attack_strength", "home_defense_strength"))
        /\ ret # None =>
              /\ ret.home_lambda = RMul(inst.home_lambda, RAdd(Half, FormGiven("home_form")))
              /\ ret.away_lambda = RMul(inst.away_lambda, RAdd(Half, FormGiven("away_form")))

\* fit on scoreless home matches and no away match, with strengths other
\* than 1 and forms other than 0.5, and predict after it
C25_WitnessFlooredAndDefault ==
    /\ inst.kind = "poisson"
    /\ ret # None
    /\ Len(given.home_goals) = 2
    /\ Mean(given.home_goals) = Zero
    /\ given.away_goals = <<>>
    /\ given.features # NoFeatures
    /\ given.features["home_attack_strength"] = R(6, 5)
    /\ given.features["home_defense_strength"] = R(4, 5)
    /\ inst.home_lambda = R(12, 100)
    /\ ret.home_lambda # inst.home_lambda

\* C27: after a Poisson or Negative-Binomial fit that failed on a strength
\* that is no number, the model's parameters are those it had before the
\* call.
C27_FailedFitLeavesParameters ==
    (calls > 0 /\ ~NumericStrengths(given.features)) => inst = fresh

----------------------------------------------------------------------------
(* Further properties of the store *)

\* the step is a predict_match request that answers None
AnswersNone == calls' = calls + 1 /\ ret' = None

\* C26: whenever predict_match returns None, no prediction of that call has
\* been persisted: the five rows of one request are stored all or none
C26_RowsStoredAllOrNone ==
    [][(calls' = calls + 1 =>
            Len(db'.predictions) - Len(db.predictions) \in {0, Len(ModelOrder)})
       /\ (AnswersNone => db'.predictions = db.predictions)]_vars

----------------------------------------------------------------------------
(* Further properties of the feature builder *)

StrengthKeys == {"home_attack_strength", "home_defense_strength",
                 "away_attack_strength", "away_defense_strength"}

\* C28: the attack and defense strengths the feature builder produces are
\* strictly positive for every stored goals_for / goals_against count,
\* goals_against of thirty and more included
C28_StrengthsStrictlyPositive ==
    calls > 0 => \A k \in StrengthKeys : RGt(ret[k], Zero)

----------------------------------------------------------------------------
(* Further properties of HawkesModel.predict *)

\* base intensities times match length, both sides together
CombinedIntensity ==
    RMul(RAdd(inst.lambda0_home, inst.lambda0_away), given.match_length)

----------------------------------------------------------------------------
(* Further properties of HMMFormModel.predict *)

\* the two form scores of the feature vector predict was called with
FormsOnly ==
    [k \in {"home_form", "away_form"} |-> FormGiven(k)]

\* C30: the output of HMMFormModel.predict depends only on the two form
\* scores of the feature vector: whatever Result History fit was called
\* with before, predict returns the probabilities, states and scoreline
\* that an instance never fitted returns for these two form scores
C30_PredictIgnoresFit ==
    (inst.kind = "hmm" /\ ret # None) => ret = HMMPredict(HMMFormModel, FormsOnly)

\* a fit has replaced the prior, and predict was then called with two
\* different form scores and further features
C30_WitnessFittedPrior ==
    /\ inst.kind = "hmm"
    /\ calls > 0
    /\ inst.state_probs # HMMFormModel.state_probs
    /\ ret # None
    /\ Computed
    /\ given.features # NoFeatures
    /\ "home_attack_strength" \in DOMAIN given.features
    /\ RGt(FormGiven("away_form"), FormGiven("home_form"))
    /\ ret.home_state # ret.away_state

====
